---------------------------- MODULE Spec2Model ----------------------------
(***************************************************************************)
(* Model of the review pipeline of insight_code_backend:                   *)
(*   - DiffAnalyzer      (src/src/helpers/diffAnalyzer.js)                 *)
(*   - CommentProcessor  (src/src/helpers/commentProcessor.js)             *)
(*   - OpenAIService     (src/src/services/openaiService.js)               *)
(*   - the Review records of a pull request and the tasks that write them  *)
(*     (aiReviewService.js, pullRequestController.js, reviewManager.js)    *)
(*                                                                         *)
(* JavaScript values are encoded as follows: an absent or empty string is  *)
(* "", an undefined line number is NoLine, null results are records with   *)
(* kind "null", a raised exception is a record with kind "throw".          *)
(***************************************************************************)
EXTENDS Integers, Sequences, FiniteSets, TLC

VARIABLES
    \* ---- DiffAnalyzer / CommentProcessor ----
    patch,          \* file.patch, split at "\n": a sequence of lines (<<>>: no patch)
    diffAnalysis,   \* result of analyzePRFiles for the one changed file
    lookup,         \* the last findDiffPosition call and what it returned
    rawComments,    \* the comments array handed to processComments
    runs,           \* the values returned by the processComments calls so far
    separated,      \* the list given to separateComments and what it returned
    \* ---- OpenAIService.analyzeCodeWithRetry ----
    retry,          \* the frame of one analyzeCodeWithRetry call
    \* ---- Review records ----
    db,             \* the persisted pull request: exists flag and reviews array
    tasks,          \* the review tasks: position and locals of each
    now,            \* Date.now()
    \* ---- PromptBuilder ----
    pb,             \* the data given to PromptBuilder, its last call and the result
    chunked         \* the chunk responses of one chunked analysis and their aggregate

diffVars   == <<patch, diffAnalysis, lookup, rawComments, runs, separated>>
retryVars  == <<retry>>
reviewVars == <<db, tasks, now>>
promptVars == <<pb, chunked>>
vars       == <<patch, diffAnalysis, lookup, rawComments, runs, separated, retry, db, tasks, now, pb, chunked>>

-----------------------------------------------------------------------------
(* Bounds of the model *)

MaxPatchLen == 4        \* lines of a patch under SpecDiff
MaxCPatchLen == 2       \* lines of a patch under SpecComments
MaxComments == 2        \* comments in one processComments call
MaxQueryLine == 9       \* largest line number asked of findDiffPosition

-----------------------------------------------------------------------------
(* Small helpers *)

NoLine == 0 - 1
Abs(x) == IF x < 0 THEN 0 - x ELSE x
Range(s) == {s[i] : i \in 1..Len(s)}
EmptyMap == [k \in {} |-> 0]

RECURSIVE SeqsUpTo(_, _)
SeqsUpTo(S, n) ==
    IF n = 0 THEN {<<>>}
    ELSE LET shorter == SeqsUpTo(S, n - 1)
         IN  shorter \cup {Append(s, x) : s \in {t \in shorter : Len(t) = n - 1}, x \in S}

RECURSIVE SortedSeq(_)
SortedSeq(S) ==
    IF S = {} THEN <<>>
    ELSE LET m == CHOOSE x \in S : \A y \in S : x <= y
         IN  <<m>> \o SortedSeq(S \ {m})

-----------------------------------------------------------------------------
(* Patch lines.  A line is its prefix (what startsWith and getLineType look *)
(* at) and the rest of its text; for a line that starts with "@@", wf says  *)
(* whether the hunk-header pattern matches and oldStart/newStart are the    *)
(* numbers it captures.  oldLines/newLines are parsed but never read.       *)

Line(pre, txt, wf, o, n) == [pre |-> pre, txt |-> txt, wf |-> wf, oldStart |-> o, newStart |-> n]
Hdr(o, n) == Line("@@", "", TRUE, o, n)
BadHdr    == Line("@@", "x", FALSE, 0, 0)
Add(t)    == Line("+", t, FALSE, 0, 0)
Del(t)    == Line("-", t, FALSE, 0, 0)
Ctx(t)    == Line(" ", t, FALSE, 0, 0)
Other     == Line("\\", "No newline at end of file", FALSE, 0, 0)

LineAlphabet == {Hdr(1, 1), Hdr(1, 2), BadHdr, Add("a"), Add("b"), Ctx("c"), Del("d"), Other}
Patches(n) == SeqsUpTo(LineAlphabet, n)

FileName == "a.js"

\* Mutant: a deletion line is taken for a context line
getLineTypeDeletionAsContext(line) ==
    IF line.pre = "+" THEN "addition"
    ELSE IF line.pre = "-" THEN "context"
    ELSE IF line.pre = " " THEN "context"
    ELSE "other"

\* getLineType(line)
getLineType(line) ==
    IF line.pre = "+" THEN "addition"
    ELSE IF line.pre = "-" THEN "deletion"
    ELSE IF line.pre = " " THEN "context"
    ELSE "other"

\* parseHunks(patch): lines.forEach((line, index) => ...), index counted from 0.
\* currentHunk is always the hunk pushed last: a malformed header does not reset it.
RECURSIVE parseHunksFrom(_, _, _)
parseHunksFrom(lines, i, hunks) ==
    IF i > Len(lines) THEN hunks
    ELSE LET line == lines[i]
             index == i - 1
         IN  IF line.pre = "@@"
             THEN IF line.wf
                  THEN parseHunksFrom(lines, i + 1,
                          Append(hunks, [oldStart |-> line.oldStart,
                                         newStart |-> line.newStart,
                                         headerLine |-> index,
                                         lines |-> <<>>]))
                  ELSE parseHunksFrom(lines, i + 1, hunks)
             ELSE IF Len(hunks) > 0
                  THEN LET cur == hunks[Len(hunks)]
                           entry == [content |-> line, type |-> getLineType(line), index |-> index]
                       IN  parseHunksFrom(lines, i + 1,
                              [hunks EXCEPT ![Len(hunks)] =
                                  [cur EXCEPT !.lines = Append(cur.lines, entry)]])
                  ELSE parseHunksFrom(lines, i + 1, hunks)

parseHunks(p) == parseHunksFrom(p, 1, <<>>)

\* Mutant: the diff position does not advance past a deletion line
mappingStepSkipsDeletion(st, line) ==
    IF line.type = "addition"
    THEN [mapping |-> [k \in DOMAIN st.mapping \cup {st.currentNewLine} |->
                          IF k = st.currentNewLine
                          THEN [diffPosition |-> st.diffPosition, type |-> "addition",
                                content |-> line.content, oldLine |-> NoLine]
                          ELSE st.mapping[k]],
          currentOldLine |-> st.currentOldLine,
          currentNewLine |-> st.currentNewLine + 1,
          diffPosition |-> st.diffPosition + 1]
    ELSE IF line.type = "deletion"
    THEN [st EXCEPT !.currentOldLine = @ + 1]
    ELSE IF line.type = "context"
    THEN [mapping |-> [k \in DOMAIN st.mapping \cup {st.currentNewLine} |->
                          IF k = st.currentNewLine
                          THEN [diffPosition |-> st.diffPosition, type |-> "context",
                                content |-> line.content, oldLine |-> st.currentOldLine]
                          ELSE st.mapping[k]],
          currentOldLine |-> st.currentOldLine + 1,
          currentNewLine |-> st.currentNewLine + 1,
          diffPosition |-> st.diffPosition + 1]
    ELSE st

\* Mutant: the diff position runs backwards
mappingStepCountsDown(st, line) ==
    IF line.type \in {"addition", "context"}
    THEN [mapping |-> [k \in DOMAIN st.mapping \cup {st.currentNewLine} |->
                          IF k = st.currentNewLine
                          THEN [diffPosition |-> st.diffPosition, type |-> line.type,
                                content |-> line.content,
                                oldLine |-> IF line.type = "context" THEN st.currentOldLine ELSE NoLine]
                          ELSE st.mapping[k]],
          currentOldLine |-> st.currentOldLine + (IF line.type = "context" THEN 1 ELSE 0),
          currentNewLine |-> st.currentNewLine + 1,
          diffPosition |-> st.diffPosition - 1]
    ELSE IF line.type = "deletion"
    THEN [st EXCEPT !.currentOldLine = @ + 1, !.diffPosition = @ - 1]
    ELSE st

\* One step of the forEach of createLineMapping: st is
\* [mapping, currentOldLine, currentNewLine, diffPosition].
mappingStep(st, line) ==
    IF line.type = "addition"
    THEN [mapping |-> [k \in DOMAIN st.mapping \cup {st.currentNewLine} |->
                          IF k = st.currentNewLine
                          THEN [diffPosition |-> st.diffPosition, type |-> "addition",
                                content |-> line.content, oldLine |-> NoLine]
                          ELSE st.mapping[k]],
          currentOldLine |-> st.currentOldLine,
          currentNewLine |-> st.currentNewLine + 1,
          diffPosition |-> st.diffPosition + 1]
    ELSE IF line.type = "deletion"
    THEN [st EXCEPT !.currentOldLine = @ + 1, !.diffPosition = @ + 1]
    ELSE IF line.type = "context"
    THEN [mapping |-> [k \in DOMAIN st.mapping \cup {st.currentNewLine} |->
                          IF k = st.currentNewLine
                          THEN [diffPosition |-> st.diffPosition, type |-> "context",
                                content |-> line.content, oldLine |-> st.currentOldLine]
                          ELSE st.mapping[k]],
          currentOldLine |-> st.currentOldLine + 1,
          currentNewLine |-> st.currentNewLine + 1,
          diffPosition |-> st.diffPosition + 1]
    ELSE st

RECURSIVE mappingFold(_, _, _)
mappingFold(st, lines, i) ==
    IF i > Len(lines) THEN st
    ELSE mappingFold(mappingStep(st, lines[i]), lines, i + 1)

\* createLineMapping(hunk)
createLineMapping(hunk) ==
    mappingFold([mapping |-> EmptyMap,
                 currentOldLine |-> hunk.oldStart,
                 currentNewLine |-> hunk.newStart,
                 diffPosition |-> hunk.headerLine + 1],
                hunk.lines, 1).mapping

\* { ...a, ...b }
Spread(a, b) == [k \in DOMAIN a \cup DOMAIN b |-> IF k \in DOMAIN b THEN b[k] ELSE a[k]]

RECURSIVE mergeHunks(_, _, _)
mergeHunks(acc, hunks, i) ==
    IF i > Len(hunks) THEN acc
    ELSE mergeHunks(Spread(acc, createLineMapping(hunks[i])), hunks, i + 1)

\* analyzeFile(file)
analyzeFile(p) ==
    IF p = <<>>
    THEN [filename |-> FileName, lineMapping |-> EmptyMap, hunks |-> <<>>, patch |-> p]
    ELSE LET hunks == parseHunks(p)
         IN  [filename |-> FileName,
              lineMapping |-> mergeHunks(EmptyMap, hunks, 1),
              hunks |-> hunks,
              patch |-> p]

\* analyzePRFiles(files) for the one changed file
analyzePRFiles(p) == [ready |-> TRUE, files |-> [f \in {FileName} |-> analyzeFile(p)]]

NoAnalysis == [ready |-> FALSE, files |-> EmptyMap]

-----------------------------------------------------------------------------
(* findDiffPosition, in its two implementations *)

Tolerance == 5

Pos(n)   == [kind |-> "pos", value |-> n]
Null     == [kind |-> "null", value |-> 0]
Thrown   == [kind |-> "throw", value |-> 0]

\* availableLines.reduce((prev, curr) =>
\*     Math.abs(curr - lineNumber) < Math.abs(prev - lineNumber) ? curr : prev, prev0)
\* over lines[i..]
RECURSIVE reduceClosest(_, _, _, _)
reduceClosest(lines, i, prev, lineNumber) ==
    IF i > Len(lines) THEN prev
    ELSE reduceClosest(lines, i + 1,
                       IF Abs(lines[i] - lineNumber) < Abs(prev - lineNumber)
                       THEN lines[i] ELSE prev,
                       lineNumber)

\* Object.keys(fileAnalysis.lineMapping).map(Number): integer keys, ascending
availableLinesOf(fileAnalysis) == SortedSeq(DOMAIN fileAnalysis.lineMapping)

\* DiffAnalyzer.findDiffPosition(fileAnalysis, lineNumber): reduce without an
\* initial value raises a TypeError on an empty array; no distance is checked.
DiffAnalyzer_findDiffPosition(fileAnalysis, lineNumber) ==
    IF lineNumber \in DOMAIN fileAnalysis.lineMapping
    THEN Pos(fileAnalysis.lineMapping[lineNumber].diffPosition)
    ELSE LET availableLines == availableLinesOf(fileAnalysis)
         IN  IF Len(availableLines) = 0 THEN Thrown
             ELSE LET closestLine == reduceClosest(availableLines, 2, availableLines[1], lineNumber)
                  IN  IF closestLine # 0
                      THEN Pos(fileAnalysis.lineMapping[closestLine].diffPosition)
                      ELSE Null

\* Mutant: the nearest line is taken however far it is
CommentProcessor_findDiffPositionAnyDistance(fileAnalysis, lineNumber) ==
    IF lineNumber \in DOMAIN fileAnalysis.lineMapping
    THEN Pos(fileAnalysis.lineMapping[lineNumber].diffPosition)
    ELSE LET availableLines == availableLinesOf(fileAnalysis)
         IN  IF Len(availableLines) = 0 THEN Null
             ELSE LET closestLine == reduceClosest(availableLines, 1, availableLines[1], lineNumber)
                  IN  IF closestLine # 0
                      THEN Pos(fileAnalysis.lineMapping[closestLine].diffPosition)
                      ELSE Null

\* CommentProcessor.findDiffPosition(fileAnalysis, lineNumber): reduce starts
\* from availableLines[0] (undefined on an empty array, which is falsy).
CommentProcessor_findDiffPosition(fileAnalysis, lineNumber) ==
    IF lineNumber \in DOMAIN fileAnalysis.lineMapping
    THEN Pos(fileAnalysis.lineMapping[lineNumber].diffPosition)
    ELSE LET availableLines == availableLinesOf(fileAnalysis)
         IN  IF Len(availableLines) = 0 THEN Null
             ELSE LET closestLine == reduceClosest(availableLines, 1, availableLines[1], lineNumber)
                  IN  IF closestLine # 0 /\ Abs(closestLine - lineNumber) <= Tolerance
                      THEN Pos(fileAnalysis.lineMapping[closestLine].diffPosition)
                      ELSE Null

-----------------------------------------------------------------------------
(* CommentProcessor.processComments *)

\* A raw comment of the model response.  The comments of the model carry no
\* category, suggestion or context.
Raw(f, l, t, s, c) == [file |-> f, line |-> l, type |-> t, severity |-> s, comment |-> c]

CommentDomain ==
    { Raw(FileName, 1, "issue", "high", "c1"),
      Raw(FileName, 1, "", "", "c2"),
      Raw(FileName, 4, "praise", "low", "c3"),
      Raw(FileName, 7, "nitpick", "critical", "c4"),
      Raw(FileName, 0, "question", "medium", "c5"),
      Raw(FileName, NoLine, "issue", "high", "c6"),
      Raw("b.js", 1, "issue", "low", "c7"),
      Raw("", 1, "suggestion", "medium", "c8"),
      Raw(FileName, 2, "bug", "critical", "c9") }

\* severityConfig[comment.severity] || severityConfig.medium, its label
severityLabel(severity) ==
    IF severity = "critical" THEN "CRITICAL"
    ELSE IF severity = "high" THEN "HIGH"
    ELSE IF severity = "low" THEN "LOW"
    ELSE "MEDIUM"

\* formatComment(comment): badge, then the comment text
formatComment(comment) == [label |-> severityLabel(comment.severity), text |-> comment.comment]

NullComment == [isNull |-> TRUE]

\* processComment(comment, diffAnalysis)
processComment(comment, da) ==
    IF comment.file = "" \/ comment.line = NoLine THEN NullComment
    ELSE IF comment.file \notin DOMAIN da.files THEN NullComment
    ELSE LET diffPosition == CommentProcessor_findDiffPosition(da.files[comment.file], comment.line)
         IN  IF diffPosition.kind # "pos" \/ diffPosition.value = 0 THEN NullComment
             ELSE [isNull |-> FALSE,
                   file |-> comment.file,
                   line |-> comment.line,
                   comment |-> comment.comment,
                   diffPosition |-> diffPosition.value,
                   severity |-> IF comment.severity # "" THEN comment.severity ELSE "medium",
                   type |-> IF comment.type # "" THEN comment.type ELSE "issue",
                   formattedComment |-> formatComment(comment)]

\* comments.map(processComment).filter(c => c !== null)
RECURSIVE mapFilterComments(_, _, _)
mapFilterComments(comments, da, i) ==
    IF i > Len(comments) THEN <<>>
    ELSE LET c == processComment(comments[i], da)
         IN  (IF c.isNull THEN <<>> ELSE <<c>>) \o mapFilterComments(comments, da, i + 1)

processComments(comments, da) == mapFilterComments(comments, da, 1)

\* Mutant: the defaults are written into the comment that was passed in
commentAfterProcessInPlace(comment, da) ==
    [comment EXCEPT !.severity = IF @ # "" THEN @ ELSE "medium",
                    !.type = IF @ # "" THEN @ ELSE "issue"]

\* What a processComments call leaves in the array it was given: processComment
\* builds a new object ({...comment, ...}) and writes to no field of its argument.
commentAfterProcess(comment, da) == comment


MaxSeparated == 3       \* comments in one separateComments call

\* A comment as separateComments reads it: file, line, formattedComment,
\* diffPosition ("" / NoLine / 0: absent)
Processed(f, l, fc, dp) == [file |-> f, line |-> l, formattedComment |-> fc, diffPosition |-> dp]
SeparateDomain ==
    { Processed(FileName, 3, "f1", 2),
      Processed(FileName, 0, "f2", 1),
      Processed("", 5, "f3", 0),
      Processed(FileName, NoLine, "f4", 0),
      Processed("b.js", 1, "f5", 7),
      Processed("", 0, "f6", 0) }

\* formatGeneralComment(comment): the file and line headings, then the text
formatGeneralComment(comment) ==
    IF comment.file # ""
    THEN [file |-> comment.file,
          line |-> IF comment.line # NoLine /\ comment.line # 0 THEN comment.line ELSE NoLine,
          text |-> comment.formattedComment]
    ELSE [file |-> "", line |-> NoLine, text |-> comment.formattedComment]

\* Mutant: a comment is inline as soon as it names a file
isInlineFileOnly(comment) == comment.file # ""

\* comment.file && comment.line > 0 (undefined > 0 is false)
isInline(comment) == comment.file # "" /\ comment.line # NoLine /\ comment.line > 0

\* The forEach of separateComments: push to inline or to general
RECURSIVE separateFrom(_, _, _)
separateFrom(comments, i, acc) ==
    IF i > Len(comments) THEN acc
    ELSE LET comment == comments[i]
         IN  separateFrom(comments, i + 1,
                IF isInline(comment)
                THEN [acc EXCEPT !.inlineComments =
                         Append(@, [path |-> comment.file, line |-> comment.line,
                                    body |-> comment.formattedComment,
                                    position |-> comment.diffPosition])]
                ELSE [acc EXCEPT !.generalComments =
                         Append(@, [body |-> formatGeneralComment(comment)])])

\* separateComments(comments)
separateComments(comments) ==
    separateFrom(comments, 1, [inlineComments |-> <<>>, generalComments |-> <<>>])

NotSeparated == [given |-> FALSE, list |-> <<>>, inlineComments |-> <<>>, generalComments |-> <<>>]

\* One call separateComments(comments)
SeparateComments(comments) ==
    /\ ~separated.given
    /\ separated' = [given |-> TRUE, list |-> comments,
                     inlineComments |-> separateComments(comments).inlineComments,
                     generalComments |-> separateComments(comments).generalComments]
    /\ UNCHANGED <<patch, diffAnalysis, lookup, rawComments, runs, retryVars, reviewVars, promptVars>>

-----------------------------------------------------------------------------
(* OpenAIService: analyzeCode, validateJsonResponse, analyzeCodeWithRetry *)

MaxRetriesBound == 2    \* largest maxRetries tried (the default argument is 2)

\* A comment of a model response
RC(f, l, t, s, cat, c) ==
    [file |-> f, line |-> l, type |-> t, severity |-> s, category |-> cat, comment |-> c]

Metrics(r, m, s, pf) == [readability |-> r, maintainability |-> m, security |-> s, performance |-> pf]

\* A parsed response object; an absent field is "", a non-array, or the empty map
Response(sum, isArr, cs, m, oa) ==
    [summary |-> sum, commentsIsArray |-> isArr, comments |-> cs, metrics |-> m, overallAssessment |-> oa]

FullResponse ==
    Response("LGTM", TRUE, <<RC(FileName, 3, "issue", "high", "security", "c1")>>,
             Metrics(8, 7, 9, 8), [verdict |-> "approve"])
PartialResponse == Response("", FALSE, <<>>, EmptyMap, EmptyMap)
MixedResponse ==
    Response("2 issues", TRUE,
             <<RC(FileName, 0, "issue", "low", "style", "c2"), RC(FileName, 2, "", "", "", "")>>,
             Metrics(8, 6, 7, 5), EmptyMap)
ResponseObjects == {FullResponse, PartialResponse, MixedResponse}

\* getDefaultResponse(errorMessage)
getDefaultResponse(errorMessage) ==
    [summary |-> errorMessage,
     commentsIsArray |-> TRUE,
     comments |-> <<>>,
     metrics |-> [readability |-> 5, maintainability |-> 5, security |-> 5,
                  performance |-> 5, testCoverage |-> 5, architecturalQuality |-> 5],
     overallAssessment |-> [verdict |-> "needs_discussion",
                            reasoning |-> "Unable to complete full analysis",
                            mainConcerns |-> <<errorMessage>>]]

RECURSIVE validateComments(_, _)
validateComments(cs, i) ==
    IF i > Len(cs) THEN <<>>
    ELSE LET c == cs[i]
         IN  (IF c.file # "" /\ c.line # 0 /\ c.line # NoLine
              THEN <<[file |-> c.file,
                      line |-> c.line,
                      type |-> IF c.type # "" THEN c.type ELSE "suggestion",
                      severity |-> IF c.severity # "" THEN c.severity ELSE "medium",
                      category |-> IF c.category # "" THEN c.category ELSE "general",
                      comment |-> c.comment]>>
              ELSE <<>>) \o validateComments(cs, i + 1)

\* validateJsonResponse(response), for a response that is an object
validateJsonResponse(response) ==
    [summary |-> IF response.summary # "" THEN response.summary ELSE "Code review completed",
     commentsIsArray |-> TRUE,
     comments |-> IF response.commentsIsArray THEN validateComments(response.comments, 1) ELSE <<>>,
     metrics |-> response.metrics,
     overallAssessment |-> response.overallAssessment]

\* What one chat.completions.create call can do: answer with a text, or fail.
\*   json         the text is a JSON object
\*   nonObject    the text is valid JSON but no object (null, a number)
\*   embedded     the text is not JSON; its {...} substring is a JSON object
\*   embeddedBad  the text is not JSON; its {...} substring is not JSON either
\*   noBraces     the text is not JSON and holds no {...}
\*   err429, err400rf (status 400, message names response_format), errOther
Outcome(k, v) == [kind |-> k, value |-> v]
ServiceOutcomes ==
    {Outcome(k, v) : k \in {"json", "embedded"}, v \in ResponseObjects}
    \cup {Outcome(k, PartialResponse) :
            k \in {"nonObject", "embeddedBad", "noBraces", "err429", "err400rf", "errOther"}}

\* The message of the error analyzeCode raises on status 429
RateLimitMessage == "OpenAI rate limit exceeded. Please try again later."

\* The body of analyzeCode / analyzeCodeWithoutJsonMode after the call, given
\* what the call did: "return" a value, "throw", or "fallback" to the second.
\* fallbackAllowed is FALSE inside analyzeCodeWithoutJsonMode, which rethrows.
analyzeCodeResult(o, fallbackAllowed) ==
    IF o.kind \in {"json", "embedded"}
    THEN [how |-> "return", isObject |-> TRUE, value |-> o.value, error |-> ""]
    ELSE IF o.kind = "nonObject"
    THEN [how |-> "return", isObject |-> FALSE, value |-> o.value, error |-> ""]
    ELSE IF o.kind = "noBraces"
    THEN [how |-> "return", isObject |-> TRUE,
          value |-> getDefaultResponse("Failed to parse AI response"), error |-> ""]
    ELSE IF o.kind = "err400rf" /\ fallbackAllowed
    THEN [how |-> "fallback", isObject |-> FALSE, value |-> o.value, error |-> ""]
    ELSE [how |-> "throw", isObject |-> FALSE, value |-> o.value,
          error |-> IF o.kind = "embeddedBad" THEN "SyntaxError"
                    ELSE IF o.kind = "err429" /\ fallbackAllowed
                    THEN RateLimitMessage
                    ELSE o.kind]

\* Mutant: a linear backoff
backoffDelayLinear(attempt) == 2 * attempt * 1000

\* Math.pow(2, attempt) * 1000, in milliseconds
backoffDelay(attempt) == (2 ^ attempt) * 1000

\* attempt < maxRetries: whether a failed attempt is followed by a wait
retriesLeft(attempt, maxRetries) == attempt < maxRetries

\* The last analyzeCode / analyzeCodeWithoutJsonMode body that ran: what the
\* service call did (text) and how the body ended (how, value)
Analyzed(text, res) == [text |-> text, how |-> res.how, value |-> res.value]
NotAnalyzed == [text |-> "", how |-> "", value |-> PartialResponse]

IdleRetry ==
    [pc |-> "idle", maxRetries |-> 0, attempt |-> 0, calls |-> 0, delays |-> <<>>,
     log |-> <<>>, lastError |-> "", result |-> PartialResponse, analyzed |-> NotAnalyzed]

\* analyzeCodeWithRetry(prompt, maxRetries) is called.  With maxRetries < 0 the
\* loop body never runs and lastError.message raises a TypeError.
RetryStart(mr) ==
    /\ retry.pc = "idle"
    /\ retry' = IF mr >= 0
                 THEN [retry EXCEPT !.pc = "attempt", !.maxRetries = mr]
                 ELSE [retry EXCEPT !.pc = "raised", !.maxRetries = mr]
    /\ UNCHANGED <<diffVars, reviewVars, promptVars>>

\* The catch block of the loop for a failed attempt, and the loop's exit
afterFailure(r, error) ==
    LET logged == [r EXCEPT !.log = Append(@, [ok |-> FALSE, parsed |-> PartialResponse]),
                            !.lastError = error]
    IN  IF retriesLeft(r.attempt, r.maxRetries)
        THEN [logged EXCEPT !.pc = "sleep", !.delays = Append(@, backoffDelay(r.attempt))]
        ELSE IF r.attempt + 1 <= r.maxRetries
             THEN [logged EXCEPT !.pc = "attempt", !.attempt = @ + 1]
             ELSE [logged EXCEPT !.pc = "returned", !.attempt = @ + 1,
                                 !.result = getDefaultResponse("Failed after multiple attempts")]

\* What follows once analyzeCode has returned or thrown inside the try
afterAnalyzeCode(r, res) ==
    IF res.how = "return" /\ res.isObject
    THEN [r EXCEPT !.pc = "returned",
                   !.log = Append(@, [ok |-> TRUE, parsed |-> res.value]),
                   !.result = validateJsonResponse(res.value)]
    ELSE afterFailure(r, IF res.how = "return" THEN "Invalid response format" ELSE res.error)

\* One loop iteration up to the end of analyzeCode's first service call
RetryAttempt(o) ==
    /\ retry.pc = "attempt"
    /\ LET res == analyzeCodeResult(o, TRUE)
           called == [retry EXCEPT !.calls = @ + 1, !.analyzed = Analyzed(o.kind, res)]
       IN  retry' = IF res.how = "fallback"
                    THEN [called EXCEPT !.pc = "fallback"]
                    ELSE afterAnalyzeCode(called, res)
    /\ UNCHANGED <<diffVars, reviewVars, promptVars>>

\* analyzeCodeWithoutJsonMode: the second service call of the same attempt
RetryFallback(o) ==
    /\ retry.pc = "fallback"
    /\ LET res == analyzeCodeResult(o, FALSE)
       IN  retry' = afterAnalyzeCode([retry EXCEPT !.calls = @ + 1,
                                                   !.analyzed = Analyzed(o.kind, res)], res)
    /\ UNCHANGED <<diffVars, reviewVars, promptVars>>

\* The setTimeout of the backoff fires: the loop goes to its next iteration
RetryWake ==
    /\ retry.pc = "sleep"
    /\ retry' = [retry EXCEPT !.pc = "attempt", !.attempt = @ + 1]
    /\ UNCHANGED <<diffVars, reviewVars, promptVars>>


-----------------------------------------------------------------------------
(* Review records of one pull request, and the review tasks *)

MaxTasks == 2           \* review tasks (triggers) in one behaviour
MaxClock == 1           \* Date.now() runs over 0..MaxClock
MaxRandom == 2          \* values of the random suffix of a controller reviewId

Tasks == 1..MaxTasks

AbsentMetrics ==
    [codeQualityScore |-> 0, complexity |-> 0, readability |-> 0,
     maintainability |-> 0, securityScore |-> 0]
DefaultMetrics ==
    [codeQualityScore |-> 5, complexity |-> 5, readability |-> 5,
     maintainability |-> 5, securityScore |-> 5]

\* A Review subdocument (PRReviewSchema, plus the isSuperseded flag that
\* markPreviousReviewsAsSuperseded sets and the isPlaceholder flag of
\* createOrUpdatePullRequest); an absent string is "".
Review(id, st, sup, sum, fb, m, err, created) ==
    [reviewId |-> id, status |-> st, isSuperseded |-> sup, summary |-> sum,
     feedback |-> fb, metrics |-> m, error |-> err, createdAt |-> created,
     isPlaceholder |-> FALSE]

ReviewId(fmt, t, n) == [fmt |-> fmt, t |-> t, n |-> n]
NoId == ReviewId("", 0, 0)

\* analysisResult of analyzeWithAI / the analysis given to ReviewManager:
\* what the completion service answered, parsed.  A metric of 0 is an absent one.
Analysis(sum, cs, hasM, m) == [summary |-> sum, comments |-> cs, hasMetrics |-> hasM, metrics |-> m]
AnalysisResults ==
    { Analysis("ok", <<Raw(FileName, 1, "bug", "high", "c1")>>, TRUE, Metrics(8, 7, 9, 8)),
      Analysis("", <<Raw(FileName, 2, "nitpick", "critical", "c2")>>, FALSE, Metrics(0, 0, 0, 0)),
      Analysis("clean", <<>>, TRUE, Metrics(9, 0, 9, 9)) }

\* reviewResult of the legacy reviewCode (parseReviewResponse): feedback items
\* already carry path/line/comment/type/severity
Feedback(p, l, c, t, sv) == [path |-> p, line |-> l, comment |-> c, type |-> t, severity |-> sv]
ReviewResults ==
    { [summary |-> "looks good", feedback |-> <<>>, metrics |-> DefaultMetrics, noFiles |-> FALSE],
      [summary |-> "one bug", feedback |-> <<Feedback(FileName, 3, "bug here", "issue", "high")>>,
       metrics |-> [DefaultMetrics EXCEPT !.securityScore = 3], noFiles |-> FALSE] }
NoFilesResult ==
    [summary |-> "No files to review based on configuration.", feedback |-> <<>>,
     metrics |-> AbsentMetrics, noFiles |-> TRUE]

\* The part of the text of buildAIPrompt that depends on the review history:
\* the Type line, whether a PREVIOUS REVIEW section is present, the number in
\* its "Found n issues" line, and its numbered "comment (path:line)" entries
Prompt(rr, hasPrev, found, issues) ==
    [isReReview |-> rr, hasPrevious |-> hasPrev, found |-> found, issues |-> issues]
NoPrompt == Prompt(FALSE, FALSE, 0, <<>>)

IdleTask ==
    [pc |-> "idle", variant |-> "", isReReview |-> FALSE, reviewId |-> NoId, doc |-> <<>>,
     previousReviews |-> <<>>, prompt |-> NoPrompt, postFailed |-> FALSE,
     analysis |-> Analysis("", <<>>, FALSE, Metrics(0, 0, 0, 0)),
     result |-> NoFilesResult, error |-> ""]

\* reviews.findIndex(r => r.reviewId === reviewId); 0 stands for -1
RECURSIVE findIndexFrom(_, _, _)
findIndexFrom(reviews, id, i) ==
    IF i > Len(reviews) THEN 0
    ELSE IF reviews[i].reviewId = id THEN i
    ELSE findIndexFrom(reviews, id, i + 1)
findIndex(reviews, id) == findIndexFrom(reviews, id, 1)

\* The enum validators of PRReviewSchema, run by save()
StatusEnum   == {"pending", "in_progress", "completed", "failed"}
TypeEnum     == {"suggestion", "issue", "praise", "question"}
SeverityEnum == {"low", "medium", "high"}
schemaValid(review) ==
    /\ review.status \in StatusEnum
    /\ \A i \in 1..Len(review.feedback) :
          /\ review.feedback[i].type \in TypeEnum
          /\ review.feedback[i].severity \in SeverityEnum

\* Math.round(x / 4) for x >= 0
roundQuarter(x) == (2 * x + 4) \div 8

\* The typeMap of AIReviewService.updateReviewStatus
aiValidType(type) ==
    IF type = "" THEN "suggestion"
    ELSE IF type \in {"issue", "bug", "error"} THEN "issue"
    ELSE IF type = "praise" THEN "praise"
    ELSE IF type = "question" THEN "question"
    ELSE "suggestion"

\* severity: comment.severity || "medium" in AIReviewService.updateReviewStatus
aiSeverity(severity) == IF severity # "" THEN severity ELSE "medium"

RECURSIVE aiMapFeedback(_, _)
aiMapFeedback(comments, i) ==
    IF i > Len(comments) THEN <<>>
    ELSE LET c == comments[i]
         IN  <<Feedback(c.file, IF c.line = NoLine THEN 0 ELSE c.line, c.comment,
                        aiValidType(c.type), aiSeverity(c.severity))>>
             \o aiMapFeedback(comments, i + 1)

orFive(x) == IF x = 0 THEN 5 ELSE x

aiMetrics(m) ==
    LET anyAbsent == 0 \in {m.readability, m.maintainability, m.security, m.performance}
        mean == roundQuarter(m.readability + m.maintainability + m.security + m.performance)
    IN  [codeQualityScore |-> IF anyAbsent THEN 5 ELSE orFive(mean),
         readability |-> orFive(m.readability),
         maintainability |-> orFive(m.maintainability),
         securityScore |-> orFive(m.security),
         complexity |-> orFive(m.performance)]

\* The updatedReview object AIReviewService.updateReviewStatus builds: it
\* replaces the stored review whole, so fields it does not list are lost.
aiUpdatedReview(old, reviewId, analysisResult, hasAnalysis, status, errorMessage) ==
    LET withAnalysis == status = "completed" /\ hasAnalysis
    IN  Review(reviewId, status, FALSE,
               IF withAnalysis
               THEN (IF analysisResult.summary # "" THEN analysisResult.summary
                     ELSE "AI review completed")
               ELSE "",
               IF withAnalysis THEN aiMapFeedback(analysisResult.comments, 1) ELSE <<>>,
               IF withAnalysis /\ analysisResult.hasMetrics
               THEN aiMetrics(analysisResult.metrics) ELSE DefaultMetrics,
               errorMessage,
               old.createdAt)

\* AIReviewService.updateReviewStatus: every error is caught and not re-thrown;
\* saveOk is whether the store accepts the write.
aiUpdateReviewStatus(d, reviewId, analysisResult, hasAnalysis, status, errorMessage, saveOk) ==
    LET idx == findIndex(d.reviews, reviewId)
    IN  IF ~d.exists \/ idx = 0 THEN d
        ELSE LET updated == aiUpdatedReview(d.reviews[idx], reviewId, analysisResult,
                                            hasAnalysis, status, errorMessage)
             IN  IF saveOk /\ schemaValid(updated)
                 THEN [d EXCEPT !.reviews[idx] = updated]
                 ELSE d

\* "reviews.$[].isSuperseded": true, applied to the stored reviews
supersedeAll(reviews) == [i \in 1..Len(reviews) |-> [reviews[i] EXCEPT !.isSuperseded = TRUE]]


\* Mutant: the previous reviews without the filter on status/isSuperseded
getPreviousReviewsUnfiltered(reviews) == reviews

\* getRepositoryContext: pullRequest.reviews.filter(review =>
\*   review.status === "completed" && !review.isSuperseded), on the document
\* the task holds in memory
getPreviousReviews(reviews) ==
    LET current(review) == review.status = "completed" /\ ~review.isSuperseded
    IN  SelectSeq(reviews, current)

\* buildAIPrompt: the PREVIOUS REVIEW section of a re-review prompt
buildAIPrompt(previousReviews, isReReview) ==
    IF isReReview /\ Len(previousReviews) > 0
    THEN LET lastReview == previousReviews[Len(previousReviews)]
         IN  Prompt(TRUE, TRUE, Len(lastReview.feedback),
                    [i \in 1..Len(lastReview.feedback) |->
                        [comment |-> lastReview.feedback[i].comment,
                         path |-> lastReview.feedback[i].path,
                         line |-> lastReview.feedback[i].line]])
    ELSE Prompt(isReReview, FALSE, 0, <<>>)

-----------------------------------------------------------------------------
(* AIReviewService.reviewPullRequest, one action per awaited step *)

SetTask(t, rec) == tasks' = [tasks EXCEPT ![t] = rec]

\* Mutant: the previous reviews are superseded by every review, not only a re-review
AStartAlwaysSupersedes(t, rr) ==
    /\ tasks[t].pc = "idle"
    /\ IF ~db.exists
       THEN SetTask(t, [tasks[t] EXCEPT !.pc = "raised", !.variant = "service",
                                        !.isReReview = rr,
                                        !.error = "Pull request not found"])
       ELSE SetTask(t, [tasks[t] EXCEPT
                !.pc = IF Len(db.reviews) > 0 THEN "A_supersede" ELSE "A_add",
                !.variant = "service",
                !.isReReview = rr,
                !.doc = db.reviews,
                !.reviewId = ReviewId("review_", now, Len(db.reviews) + 1)])
    /\ UNCHANGED <<db, now, diffVars, retryVars, promptVars>>

\* findById, and the reviewId `review_${Date.now()}_${reviewCount + 1}`
AStart(t, rr) ==
    /\ tasks[t].pc = "idle"
    /\ IF ~db.exists
       THEN SetTask(t, [tasks[t] EXCEPT !.pc = "raised", !.variant = "service",
                                        !.isReReview = rr,
                                        !.error = "Pull request not found"])
       ELSE SetTask(t, [tasks[t] EXCEPT
                !.pc = IF rr /\ Len(db.reviews) > 0 THEN "A_supersede" ELSE "A_add",
                !.variant = "service",
                !.isReReview = rr,
                !.doc = db.reviews,
                !.reviewId = ReviewId("review_", now, Len(db.reviews) + 1)])
    /\ UNCHANGED <<db, now, diffVars, retryVars, promptVars>>

\* markPreviousReviewsAsSuperseded: findByIdAndUpdate; an error is logged only
ASupersede(t, ok) ==
    /\ tasks[t].pc = "A_supersede"
    /\ db' = IF ok /\ db.exists THEN [db EXCEPT !.reviews = supersedeAll(@)] ELSE db
    /\ SetTask(t, [tasks[t] EXCEPT !.pc = "A_add"])
    /\ UNCHANGED <<now, diffVars, retryVars, promptVars>>

\* Mutant: the task goes on to fetch without having saved its review
AAddNotPersisted(t, ok) ==
    /\ tasks[t].pc = "A_add"
    /\ SetTask(t, [tasks[t] EXCEPT !.pc = "A_fetch"])
    /\ UNCHANGED <<db, now, diffVars, retryVars, promptVars>>

\* pullRequest.addReview({reviewId, status: "in_progress", ...}) on the
\* document read by AStart: the duplicate check reads that copy, save() pushes.
AAdd(t, ok) ==
    /\ tasks[t].pc = "A_add"
    /\ LET new == Review(tasks[t].reviewId, "in_progress", FALSE, "", <<>>, AbsentMetrics, "", now)
           dup == findIndex(tasks[t].doc, tasks[t].reviewId) # 0
       IN  IF dup \/ ~ok \/ ~db.exists
           THEN /\ SetTask(t, [tasks[t] EXCEPT !.pc = "A_fail", !.error = "addReview failed"])
                /\ db' = db
           ELSE /\ SetTask(t, [tasks[t] EXCEPT !.pc = "A_fetch", !.doc = Append(@, new)])
                /\ db' = [db EXCEPT !.reviews = Append(@, new)]
    /\ UNCHANGED <<now, diffVars, retryVars, promptVars>>

\* getPullRequestDiff and getRepositoryContext
AFetch(t, ok) ==
    /\ tasks[t].pc = "A_fetch"
    /\ SetTask(t, IF ok THEN [tasks[t] EXCEPT !.pc = "A_analyze",
                                               !.previousReviews = getPreviousReviews(tasks[t].doc)]
                  ELSE [tasks[t] EXCEPT !.pc = "A_fail", !.error = "GitHub request failed"])
    /\ UNCHANGED <<db, now, diffVars, retryVars, promptVars>>

\* analyzeWithAI: buildAIPrompt, openaiService.analyzeCode (no retry) and
\* parseAIResponse
AAnalyze(t, ok, ar) ==
    /\ tasks[t].pc = "A_analyze"
    /\ LET prompt == buildAIPrompt(tasks[t].previousReviews, tasks[t].isReReview)
       IN  SetTask(t, IF ok THEN [tasks[t] EXCEPT !.pc = "A_post", !.prompt = prompt,
                                                  !.analysis = ar]
                      ELSE [tasks[t] EXCEPT !.pc = "A_fail", !.prompt = prompt,
                                            !.error = RateLimitMessage])
    /\ UNCHANGED <<db, now, diffVars, retryVars, promptVars>>

\* postReviewComments inside its own try/catch: an error is logged only
\* (postFailed records that one was raised)
APost(t, ok) ==
    /\ tasks[t].pc = "A_post"
    /\ SetTask(t, [tasks[t] EXCEPT !.pc = "A_complete", !.postFailed = ~ok])
    /\ UNCHANGED <<db, now, diffVars, retryVars, promptVars>>

\* updateReviewStatus(pullRequestId, reviewId, analysisResult, "completed")
AComplete(t, ok) ==
    /\ tasks[t].pc = "A_complete"
    /\ db' = aiUpdateReviewStatus(db, tasks[t].reviewId, tasks[t].analysis, TRUE, "completed", "", ok)
    /\ SetTask(t, [tasks[t] EXCEPT !.pc = "returned"])
    /\ UNCHANGED <<now, diffVars, retryVars, promptVars>>

\* The catch block: updateReviewStatus(..., null, "failed", error.message), then throw
AFail(t, ok) ==
    /\ tasks[t].pc = "A_fail"
    /\ db' = aiUpdateReviewStatus(db, tasks[t].reviewId, tasks[t].analysis, FALSE, "failed",
                                  tasks[t].error, ok)
    /\ SetTask(t, [tasks[t] EXCEPT !.pc = "raised"])
    /\ UNCHANGED <<now, diffVars, retryVars, promptVars>>

-----------------------------------------------------------------------------
(* PullRequestService.createOrUpdatePullRequest, PullRequest.updateDetails *)

\* The review a new pull request is created with: {reviewId: uuid(),
\* status: "pending", createdAt, isPlaceholder: true}
Placeholder ==
    [Review(ReviewId("uuid", 0, 0), "pending", FALSE, "", <<>>, AbsentMetrics, "", now)
        EXCEPT !.isPlaceholder = TRUE]

\* Mutant: the $pull removes every review of the document
pullAll(reviews) == <<>>

\* $pull: {reviews: {isPlaceholder: true}}
pullPlaceholder(reviews) ==
    LET kept(review) == ~review.isPlaceholder
    IN  SelectSeq(reviews, kept)

\* createOrUpdatePullRequest up to newPR.save(): an existing pull request is
\* returned as it is, a new one is saved with the placeholder review
CSave(t, ok) ==
    /\ tasks[t].pc = "idle"
    /\ IF db.exists
       THEN /\ SetTask(t, [tasks[t] EXCEPT !.pc = "done", !.variant = "sync"])
            /\ db' = db
       ELSE IF ok
       THEN /\ SetTask(t, [tasks[t] EXCEPT !.pc = "C_pull", !.variant = "sync"])
            /\ db' = [exists |-> TRUE, reviews |-> <<Placeholder>>]
       ELSE /\ SetTask(t, [tasks[t] EXCEPT !.pc = "raised", !.variant = "sync",
                                           !.error = "save failed"])
            /\ db' = db
    /\ UNCHANGED <<now, diffVars, retryVars, promptVars>>

\* PullRequest.updateOne({_id}, {$pull: {reviews: {isPlaceholder: true}}}),
\* then findById and return; a failed update is re-thrown
CPull(t, ok) ==
    /\ tasks[t].pc = "C_pull"
    /\ IF ok
       THEN /\ db' = [db EXCEPT !.reviews = pullPlaceholder(@)]
            /\ SetTask(t, [tasks[t] EXCEPT !.pc = "done"])
       ELSE /\ db' = db
            /\ SetTask(t, [tasks[t] EXCEPT !.pc = "raised", !.error = "update failed"])
    /\ UNCHANGED <<now, diffVars, retryVars, promptVars>>

\* prDoc.updateDetails(prData) of the webhook handler: the reviews key is
\* taken out of the details, the other fields are assigned and saved
updateDetails(d) == d

UpdateDetails(t, ok) ==
    /\ tasks[t].pc = "idle"
    /\ db.exists
    /\ db' = IF ok THEN updateDetails(db) ELSE db
    /\ SetTask(t, IF ok THEN [tasks[t] EXCEPT !.pc = "done", !.variant = "webhook"]
                  ELSE [tasks[t] EXCEPT !.pc = "raised", !.variant = "webhook",
                                        !.error = "save failed"])
    /\ UNCHANGED <<now, diffVars, retryVars, promptVars>>

-----------------------------------------------------------------------------
(* pullRequestController: triggerReview, performReview, updateReviewStatus *)

\* updateReviewStatus(repositoryId, prNumber, reviewId, status, data): writes
\* fields of the stored review and re-throws every error.
ctlUpdateReviewStatus(d, reviewId, status, data, errorMessage, saveOk) ==
    LET idx == findIndex(d.reviews, reviewId)
    IN  IF ~d.exists \/ idx = 0 \/ ~saveOk THEN [threw |-> TRUE, db |-> d]
        ELSE LET old == d.reviews[idx]
                 updated ==
                     IF status = "completed"
                     THEN [old EXCEPT !.status = status, !.summary = data.summary,
                                      !.feedback = data.feedback, !.metrics = data.metrics]
                     ELSE IF status = "failed"
                     THEN [old EXCEPT !.status = status, !.error = errorMessage]
                     ELSE [old EXCEPT !.status = status]
             IN  IF schemaValid(updated)
                 THEN [threw |-> FALSE, db |-> [d EXCEPT !.reviews[idx] = updated]]
                 ELSE [threw |-> TRUE, db |-> d]

\* triggerReview up to its return: the reviewId
\* `review-${Date.now()}-${random}`, the pull request created if missing,
\* pr.addReview({reviewId, status: 'in_progress'}), process.nextTick(...)
BTrigger(t, ok, rnd) ==
    /\ tasks[t].pc = "idle"
    /\ LET id == ReviewId("review-", now, rnd)
           reviews == IF db.exists THEN db.reviews ELSE <<>>
           new == Review(id, "in_progress", FALSE, "", <<>>, AbsentMetrics, "", now)
       IN  IF ~ok \/ findIndex(reviews, id) # 0
           THEN /\ SetTask(t, [tasks[t] EXCEPT !.pc = "raised", !.variant = "controller",
                                               !.error = "Error triggering review"])
                /\ db' = IF ok THEN [exists |-> TRUE, reviews |-> reviews] ELSE db
           ELSE /\ SetTask(t, [tasks[t] EXCEPT !.pc = "B_perform", !.variant = "controller",
                                               !.reviewId = id])
                /\ db' = [exists |-> TRUE, reviews |-> Append(reviews, new)]
    /\ UNCHANGED <<now, diffVars, retryVars, promptVars>>

\* performReview up to the generated review: GitHub reads, file filter, reviewCode
BPerform(t, ok, r) ==
    /\ tasks[t].pc = "B_perform"
    /\ SetTask(t, IF ok THEN [tasks[t] EXCEPT !.pc = "B_update", !.result = r]
                  ELSE [tasks[t] EXCEPT !.pc = "B_fail", !.error = "AI review failed"])
    /\ UNCHANGED <<db, now, diffVars, retryVars, promptVars>>

\* updateReviewStatus(..., 'completed', reviewResult); performReview returns
\* right after it when there were no files to review
BUpdate(t, ok) ==
    /\ tasks[t].pc = "B_update"
    /\ LET u == ctlUpdateReviewStatus(db, tasks[t].reviewId, "completed", tasks[t].result, "", ok)
       IN  /\ db' = u.db
           /\ SetTask(t, IF u.threw
                         THEN [tasks[t] EXCEPT !.pc = "B_fail", !.error = "Review update failed"]
                         ELSE IF tasks[t].result.noFiles
                         THEN [tasks[t] EXCEPT !.pc = "done"]
                         ELSE [tasks[t] EXCEPT !.pc = "B_post"])
    /\ UNCHANGED <<now, diffVars, retryVars, promptVars>>

\* createReview, addComment, incrementReviewCount, notificationService.send
BPost(t, ok) ==
    /\ tasks[t].pc = "B_post"
    /\ SetTask(t, IF ok THEN [tasks[t] EXCEPT !.pc = "done"]
                  ELSE [tasks[t] EXCEPT !.pc = "B_fail", !.postFailed = TRUE,
                                        !.error = "GitHub request failed"])
    /\ UNCHANGED <<db, now, diffVars, retryVars, promptVars>>

\* The catch of the nextTick callback: updateReviewStatus(..., 'failed', {error})
BFail(t, ok) ==
    /\ tasks[t].pc = "B_fail"
    /\ db' = ctlUpdateReviewStatus(db, tasks[t].reviewId, "failed", tasks[t].result,
                                   tasks[t].error, ok).db
    /\ SetTask(t, [tasks[t] EXCEPT !.pc = "done"])
    /\ UNCHANGED <<now, diffVars, retryVars, promptVars>>


-----------------------------------------------------------------------------
(* ReviewManager (helpers/reviewManager.js) *)

\* mapCommentType(type)
mapCommentType(type) ==
    IF type \in {"suggestion", "issue", "praise", "question"} THEN type
    ELSE IF type = "improvement" THEN "suggestion"
    ELSE IF type \in {"bug", "error"} THEN "issue"
    ELSE "suggestion"

\* mapSeverity(severity)
mapSeverity(severity) ==
    IF severity = "critical" THEN "high"
    ELSE IF severity \in {"low", "medium", "high"} THEN severity
    ELSE "medium"

\* processFeedback(comments)
RECURSIVE processFeedbackFrom(_, _)
processFeedbackFrom(comments, i) ==
    IF i > Len(comments) THEN <<>>
    ELSE LET c == comments[i]
         IN  (IF c.file # "" /\ c.comment # ""
              THEN <<Feedback(c.file, IF c.line = NoLine THEN 0 ELSE c.line, c.comment,
                              mapCommentType(c.type), mapSeverity(c.severity))>>
              ELSE <<>>) \o processFeedbackFrom(comments, i + 1)
processFeedback(comments) == processFeedbackFrom(comments, 1)

\* validateScore(score): parseInt(score) || 5, clamped to 1..10
validateScore(score) ==
    LET num == IF score = 0 THEN 5 ELSE score
    IN  IF num < 1 THEN 1 ELSE IF num > 10 THEN 10 ELSE num

\* processMetrics(metrics), for the metrics of a model response (which carry
\* no codeQualityScore, complexity or securityScore of their own)
processMetrics(hasMetrics, m) ==
    IF ~hasMetrics THEN DefaultMetrics
    ELSE [codeQualityScore |-> validateScore(0),
          complexity |-> validateScore(IF m.performance # 0 THEN m.performance ELSE 5),
          readability |-> validateScore(m.readability),
          maintainability |-> validateScore(m.maintainability),
          securityScore |-> validateScore(m.security)]

\* initializeReview(pullRequest, isReReview), on a document just read
RMInit(t, ok, rr) ==
    /\ tasks[t].pc = "idle"
    /\ LET id == ReviewId("review_", now, Len(db.reviews) + 1)
           new == Review(id, "in_progress", FALSE, "", <<>>, DefaultMetrics, "", now)
       IN  IF ~db.exists \/ ~ok
           THEN /\ SetTask(t, [tasks[t] EXCEPT !.pc = "raised", !.variant = "manager",
                                               !.isReReview = rr,
                                               !.error = "Error initializing review"])
                /\ db' = db
           ELSE /\ SetTask(t, [tasks[t] EXCEPT !.pc = "RM_run", !.variant = "manager",
                                               !.isReReview = rr, !.reviewId = id])
                /\ db' = [db EXCEPT !.reviews = Append(@, new)]
    /\ UNCHANGED <<now, diffVars, retryVars, promptVars>>

\* The analysis between initializeReview and updateReviewStatus
RMRun(t, ok, ar) ==
    /\ tasks[t].pc = "RM_run"
    /\ SetTask(t, IF ok THEN [tasks[t] EXCEPT !.pc = "RM_update", !.analysis = ar]
                  ELSE [tasks[t] EXCEPT !.pc = "RM_fail", !.error = "analysis failed"])
    /\ UNCHANGED <<db, now, diffVars, retryVars, promptVars>>

\* updateReviewStatus(pullRequestId, reviewId, analysis, commentResults): re-throws
rmUpdateReviewStatus(d, reviewId, analysis, saveOk) ==
    LET idx == findIndex(d.reviews, reviewId)
    IN  IF ~d.exists \/ idx = 0 \/ ~saveOk THEN [threw |-> TRUE, db |-> d]
        ELSE LET updated ==
                     [d.reviews[idx] EXCEPT
                        !.status = "completed",
                        !.summary = IF analysis.summary # "" THEN analysis.summary
                                    ELSE "AI Code Review completed",
                        !.feedback = processFeedback(analysis.comments),
                        !.metrics = processMetrics(analysis.hasMetrics, analysis.metrics)]
             IN  IF schemaValid(updated)
                 THEN [threw |-> FALSE, db |-> [d EXCEPT !.reviews[idx] = updated]]
                 ELSE [threw |-> TRUE, db |-> d]

RMUpdate(t, ok) ==
    /\ tasks[t].pc = "RM_update"
    /\ LET u == rmUpdateReviewStatus(db, tasks[t].reviewId, tasks[t].analysis, ok)
       IN  /\ db' = u.db
           /\ SetTask(t, IF u.threw
                         THEN [tasks[t] EXCEPT !.pc = "RM_fail", !.error = "Review update failed"]
                         ELSE [tasks[t] EXCEPT !.pc = "done"])
    /\ UNCHANGED <<now, diffVars, retryVars, promptVars>>

\* markReviewFailed(pullRequestId, reviewId, errorMessage): errors are logged only
rmMarkReviewFailed(d, reviewId, errorMessage, saveOk) ==
    LET idx == findIndex(d.reviews, reviewId)
    IN  IF reviewId = NoId \/ ~d.exists \/ idx = 0 \/ ~saveOk THEN d
        ELSE [d EXCEPT !.reviews[idx] = [@ EXCEPT !.status = "failed", !.error = errorMessage]]

RMFail(t, ok) ==
    /\ tasks[t].pc = "RM_fail"
    /\ db' = rmMarkReviewFailed(db, tasks[t].reviewId, tasks[t].error, ok)
    /\ SetTask(t, [tasks[t] EXCEPT !.pc = "done"])
    /\ UNCHANGED <<now, diffVars, retryVars, promptVars>>

\* Time passes
Tick ==
    /\ now < MaxClock
    /\ now' = now + 1
    /\ UNCHANGED <<db, tasks, diffVars, retryVars, promptVars>>

-----------------------------------------------------------------------------
(* DiffAnalyzer / CommentProcessor as operations on the state *)

NoLookup == [impl |-> "", line |-> 0, result |-> Null]

AnalyzePRFiles ==
    /\ ~diffAnalysis.ready
    /\ diffAnalysis' = analyzePRFiles(patch)
    /\ UNCHANGED <<patch, lookup, rawComments, runs, separated, retryVars, reviewVars, promptVars>>

DAFindDiffPosition(line) ==
    /\ diffAnalysis.ready
    /\ lookup' = [impl |-> "DiffAnalyzer", line |-> line,
                  result |-> DiffAnalyzer_findDiffPosition(diffAnalysis.files[FileName], line)]
    /\ UNCHANGED <<patch, diffAnalysis, rawComments, runs, separated, retryVars, reviewVars, promptVars>>

CPFindDiffPosition(line) ==
    /\ diffAnalysis.ready
    /\ lookup' = [impl |-> "CommentProcessor", line |-> line,
                  result |-> CommentProcessor_findDiffPosition(diffAnalysis.files[FileName], line)]
    /\ UNCHANGED <<patch, diffAnalysis, rawComments, runs, separated, retryVars, reviewVars, promptVars>>

NoComments == [given |-> FALSE, list |-> <<>>, original |-> <<>>]

\* The model response's comments arrive
ReceiveComments(cs) ==
    /\ diffAnalysis.ready
    /\ ~rawComments.given
    /\ rawComments' = [given |-> TRUE, list |-> cs, original |-> cs]
    /\ UNCHANGED <<patch, diffAnalysis, lookup, runs, separated, retryVars, reviewVars, promptVars>>

\* One call processComments(comments, diffAnalysis)
ProcessComments ==
    /\ rawComments.given
    /\ Len(runs) < 2
    /\ runs' = Append(runs, processComments(rawComments.list, diffAnalysis))
    /\ rawComments' = [rawComments EXCEPT !.list =
                          [i \in 1..Len(@) |-> commentAfterProcess(@[i], diffAnalysis)]]
    /\ UNCHANGED <<patch, diffAnalysis, lookup, separated, retryVars, reviewVars, promptVars>>

-----------------------------------------------------------------------------
(* PromptBuilder.  A text is modelled by its number of characters, which is
   all that estimateTokens, the budget tests and needsChunking look at. *)

MaxFiles == 4           \* changed files in one pull request
MaxChunks == 3          \* largest totalChunks given to buildChunkedPrompt

\* Character counts of the fixed texts
EssentialChars == 1307        \* buildEssentialPrompt without its substitutions
ReReviewChars == 58           \* "This is a RE-REVIEW. Check if previous issues were fixed.\n"
ResponseFormatChars == 1675   \* buildResponseFormat()
FileChangesChars == 15        \* "\nFILE CHANGES:\n"
OmittedChars == 45            \* "\n... (additional files omitted due to length)"
TruncatedChars == 16          \* "\n... (truncated)"
ChunkHeaderChars == 31        \* "Reviewing chunk  of  for PR: \n\n"
maxPatchLength == 1000
OverheadChars == 2000         \* totalChars += 2000
ChunkFileBudget == 3000       \* buildFileAnalysis(chunkDiffAnalysis, 3000)

CeilDiv(a, b) == (a + b - 1) \div b
Min(a, b) == IF a < b THEN a ELSE b

\* The number of characters of the decimal numeral of n, n >= 0
Digits(n) ==
    IF n < 10 THEN 1 ELSE IF n < 100 THEN 2 ELSE IF n < 1000 THEN 3
    ELSE IF n < 10000 THEN 4 ELSE IF n < 100000 THEN 5 ELSE 6

\* this.tokenLimits[model] || 4096
tokenLimit(model) ==
    IF model = "gpt-3.5-turbo" THEN 4096
    ELSE IF model = "gpt-4" THEN 8192
    ELSE IF model = "gpt-4-32k" THEN 32768
    ELSE 4096

\* process.env.OPENAI_MODEL || "gpt-3.5-turbo"; "" is an unset variable
activeModel(env) == IF env # "" THEN env ELSE "gpt-3.5-turbo"

\* estimateTokens(text): Math.ceil(text.length / 4)
estimateTokens(chars) == CeilDiv(chars, 4)

\* x > y * 0.8 for an integer x and an integer y
exceeds80(x, y) == 5 * x > 4 * y

\* One entry of diffAnalysis.files
\*   name        characters of the filename
\*   patch       characters of the patch (0: the file has no patch)
\*   headers     well-formed hunk headers in the patch, headerDigits the
\*               digits of the new start each of them shows
\*   keyLines    added lines holding api, fetch, await, async, .get or .post,
\*               keyChars the characters "line number + first 40 of the code"
\*               of each
PFile(name, additions, deletions, patchChars, headers, headerDigits, keyLines, keyChars) ==
    [name |-> name, additions |-> additions, deletions |-> deletions,
     changes |-> additions + deletions, patch |-> patchChars, headers |-> headers,
     headerDigits |-> headerDigits, keyLines |-> keyLines, keyChars |-> keyChars]

BinaryFile    == PFile(12, 0, 0, 0, 0, 0, 0, 0)
SmallFile     == PFile(12, 3, 1, 200, 1, 1, 0, 0)
MediumFile    == PFile(30, 40, 10, 1500, 2, 2, 5, 42)
LargeFileA    == PFile(24, 200, 90, 11104, 40, 3, 8, 43)
LargeFileB    == PFile(24, 200, 91, 11105, 40, 3, 8, 43)
ScatteredFile == PFile(30, 300, 300, 20000, 100, 3, 0, 0)
FileShapes == {BinaryFile, SmallFile, MediumFile, LargeFileA, LargeFileB, ScatteredFile}

\* prData and pullRequest, as far as the prompt depends on them
PRData(title, description, files) == [title |-> title, description |-> description, files |-> files]

RECURSIVE SumOver(_, _, _)
SumOver(files, field, i) ==
    IF i > Len(files) THEN 0 ELSE files[i][field] + SumOver(files, field, i + 1)

\* createLineNumberReference(patch)
createLineNumberReference(f) ==
    23 + f.headers * (35 + f.headerDigits)
       + (IF f.keyLines > 0 THEN 21 + Min(f.keyLines, 5) * (13 + f.keyChars) ELSE 0)

\* buildFileSection(filename, analysis)
buildFileSection(f) ==
    (1 + f.name + 3 + Digits(f.additions) + 2 + Digits(f.deletions) + 3)
    + (IF f.patch > 0
       THEN 8 + (IF f.patch > maxPatchLength THEN maxPatchLength + TruncatedChars ELSE f.patch)
              + 5 + createLineNumberReference(f)
       ELSE 0)

\* files.sort(([, a], [, b]) => b.changes - a.changes): stable, most changes first
RECURSIVE sortByChanges(_)
sortByChanges(files) ==
    IF files = <<>> THEN <<>>
    ELSE LET top == CHOOSE i \in 1..Len(files) :
                       \A j \in 1..Len(files) :
                          \/ files[j].changes < files[i].changes
                          \/ files[j].changes = files[i].changes /\ i <= j
             rest == [k \in 1..(Len(files) - 1) |-> IF k < top THEN files[k] ELSE files[k + 1]]
         IN  <<files[top]>> \o sortByChanges(rest)

\* The loop of buildFileAnalysis over the sorted files
RECURSIVE fileLoop(_, _, _, _)
fileLoop(sorted, i, fileSection, tokenBudget) ==
    IF i > Len(sorted) THEN fileSection
    ELSE IF exceeds80(estimateTokens(fileSection), tokenBudget)
    THEN fileSection + OmittedChars
    ELSE fileLoop(sorted, i + 1, fileSection + buildFileSection(sorted[i]), tokenBudget)

\* buildFileAnalysis(diffAnalysis, tokenBudget)
buildFileAnalysis(files, tokenBudget) ==
    fileLoop(sortByChanges(files), 1, FileChangesChars, tokenBudget)

\* buildEssentialPrompt(pullRequest, prData, isReReview); totalFiles is
\* statistics.totalFiles, the other two statistics are those of the whole
\* pull request
buildEssentialPrompt(d, totalFiles, isReReview) ==
    EssentialChars + d.title
    + (IF d.description = 0 THEN 4 ELSE Min(d.description, 200))
    + Digits(totalFiles)
    + Digits(SumOver(d.files, "additions", 1)) + Digits(SumOver(d.files, "deletions", 1))
    + (IF isReReview THEN ReReviewChars ELSE 0)

\* buildPrompt(prData, pullRequest, isReReview)
buildPrompt(d, env, isReReview) ==
    LET maxTokens == tokenLimit(activeModel(env))
        prompt == buildEssentialPrompt(d, Len(d.files), isReReview)
        filePrompt == buildFileAnalysis(d.files, maxTokens - estimateTokens(prompt))
    IN  prompt + filePrompt + ResponseFormatChars

\* files.slice(startIndex, endIndex) of buildChunkedPrompt
chunkFiles(files, chunkIndex, totalChunks) ==
    LET filesPerChunk == CeilDiv(Len(files), totalChunks)
        startIndex == chunkIndex * filesPerChunk
        endIndex == Min(startIndex + filesPerChunk, Len(files))
    IN  SubSeq(files, startIndex + 1, endIndex)

\* Mutant: filesPerChunk rounded down
chunkPositionsFloor(files, chunkIndex, totalChunks) ==
    LET filesPerChunk == Len(files) \div totalChunks
        startIndex == chunkIndex * filesPerChunk
        endIndex == Min(startIndex + filesPerChunk, Len(files))
    IN  (startIndex + 1)..endIndex

\* The positions (1-based) in Object.entries(files) of the entries that
\* files.slice(startIndex, endIndex) takes
chunkPositions(files, chunkIndex, totalChunks) ==
    LET filesPerChunk == CeilDiv(Len(files), totalChunks)
        startIndex == chunkIndex * filesPerChunk
        endIndex == Min(startIndex + filesPerChunk, Len(files))
    IN  (startIndex + 1)..endIndex

\* The numbers of the first line, `Reviewing chunk ${chunkIndex + 1} of ${totalChunks}`
chunkMarker(chunkIndex, totalChunks) == <<chunkIndex + 1, totalChunks>>

\* buildChunkedPrompt(prData, pullRequest, isReReview, chunkIndex, totalChunks)
buildChunkedPrompt(d, isReReview, chunkIndex, totalChunks) ==
    LET chunk == chunkFiles(d.files, chunkIndex, totalChunks)
    IN  ChunkHeaderChars + Digits(chunkIndex + 1) + Digits(totalChunks) + d.title
        + buildEssentialPrompt(d, Len(chunk), isReReview)
        + buildFileAnalysis(chunk, ChunkFileBudget)
        + ResponseFormatChars

\* Mutant: the estimate rounded down
estimateFullPromptTokensFloor(d) ==
    (SumOver(d.files, "patch", 1) + OverheadChars) \div 4

\* estimateFullPromptTokens(prData)
estimateFullPromptTokens(d) ==
    CeilDiv(SumOver(d.files, "patch", 1) + OverheadChars, 4)

\* needsChunking(prData)
needsChunking(d, env) ==
    exceeds80(estimateFullPromptTokens(d), tokenLimit(activeModel(env)))

NoData == PRData(0, 0, <<>>)
IdlePrompt ==
    [given |-> FALSE, data |-> NoData, env |-> "", isReReview |-> FALSE,
     call |-> "", chunkIndex |-> 0, totalChunks |-> 0, needs |-> FALSE, prompt |-> 0,
     subsets |-> <<>>, marker |-> <<0, 0>>]

\* One call of needsChunking (the functions are pure: one call per behaviour)
NeedsChunking ==
    /\ pb.given /\ pb.call = ""
    /\ pb' = [pb EXCEPT !.call = "needsChunking", !.chunkIndex = 0, !.totalChunks = 0,
                        !.prompt = 0, !.needs = needsChunking(pb.data, pb.env)]
    /\ UNCHANGED <<chunked, diffVars, retryVars, reviewVars>>

\* One call of buildPrompt
BuildPrompt ==
    /\ pb.given /\ pb.call = ""
    /\ pb' = [pb EXCEPT !.call = "buildPrompt", !.chunkIndex = 0, !.totalChunks = 0,
                        !.needs = FALSE,
                        !.prompt = buildPrompt(pb.data, pb.env, pb.isReReview)]
    /\ UNCHANGED <<chunked, diffVars, retryVars, reviewVars>>

\* One call of buildChunkedPrompt: for any chunk, or for the chunk after the
\* one just built; subsets keeps the file positions each call sliced
BuildChunkedPrompt(chunkIndex, totalChunks) ==
    /\ pb.given
    /\ \/ pb.call = ""
       \/ /\ pb.call = "buildChunkedPrompt"
          /\ totalChunks = pb.totalChunks
          /\ chunkIndex = pb.chunkIndex + 1
    /\ chunkIndex < totalChunks
    /\ pb' = [pb EXCEPT !.call = "buildChunkedPrompt", !.chunkIndex = chunkIndex,
                        !.totalChunks = totalChunks, !.needs = FALSE,
                        !.prompt = buildChunkedPrompt(pb.data, pb.isReReview,
                                                      chunkIndex, totalChunks),
                        !.subsets = Append(@, [chunkIndex |-> chunkIndex,
                                               positions |-> chunkPositions(pb.data.files,
                                                                chunkIndex, totalChunks)]),
                        !.marker = chunkMarker(chunkIndex, totalChunks)]
    /\ UNCHANGED <<chunked, diffVars, retryVars, reviewVars>>

-----------------------------------------------------------------------------
(* Chunk aggregation *)

MaxResponses == 3       \* chunk responses of one chunked analysis

\* The metrics of the chunk responses
ChunkMetrics ==
    { Metrics(8, 8, 8, 9), Metrics(7, 3, 6, 9), Metrics(9, 10, 7, 10),
      Metrics(1, 5, 10, 4), Metrics(6, 8, 9, 1) }

RECURSIVE sumOf(_, _, _)
sumOf(responses, k, i) ==
    IF i > Len(responses) THEN 0 ELSE responses[i][k] + sumOf(responses, k, i + 1)

\* Mutant: the mean is truncated
averageTruncated(responses, k) == sumOf(responses, k, 1) \div Len(responses)

\* The mean of dimension k over the chunk responses, rounded to the nearest integer
average(responses, k) ==
    (2 * sumOf(responses, k, 1) + Len(responses)) \div (2 * Len(responses))

aggregateMetrics(responses) ==
    Metrics(average(responses, "readability"), average(responses, "maintainability"),
            average(responses, "security"), average(responses, "performance"))

NoChunks == [responses |-> <<>>, aggregated |-> FALSE, metrics |-> Metrics(0, 0, 0, 0)]

\* The response of the next chunk arrives (chunks are processed sequentially)
ChunkResponse(m) ==
    /\ ~chunked.aggregated
    /\ Len(chunked.responses) < MaxResponses
    /\ chunked' = [chunked EXCEPT !.responses = Append(@, m)]
    /\ UNCHANGED <<pb, diffVars, retryVars, reviewVars>>

\* The chunk results are aggregated
AggregateChunks ==
    /\ ~chunked.aggregated
    /\ Len(chunked.responses) >= 1
    /\ chunked' = [chunked EXCEPT !.aggregated = TRUE,
                                  !.metrics = aggregateMetrics(chunked.responses)]
    /\ UNCHANGED <<pb, diffVars, retryVars, reviewVars>>

-----------------------------------------------------------------------------
(* Specifications *)

IdleDiff ==
    /\ patch = <<>>
    /\ diffAnalysis = NoAnalysis
    /\ lookup = NoLookup
    /\ rawComments = NoComments
    /\ runs = <<>>
    /\ separated = NotSeparated

IdleReview ==
    /\ db = [exists |-> TRUE, reviews |-> <<>>]
    /\ tasks = [t \in Tasks |-> IdleTask]
    /\ now = 0

\* Review tasks on one pull request
Init ==
    /\ db \in {[exists |-> e, reviews |-> <<>>] : e \in BOOLEAN}
    /\ tasks = [t \in Tasks |-> IdleTask]
    /\ now = 0
    /\ retry = IdleRetry
    /\ pb = IdlePrompt
    /\ chunked = NoChunks
    /\ IdleDiff

Next ==
    \/ \E t \in Tasks, rr \in BOOLEAN : AStart(t, rr)
    \/ \E t \in Tasks, ok \in BOOLEAN : ASupersede(t, ok)
    \/ \E t \in Tasks, ok \in BOOLEAN : AAdd(t, ok)
    \/ \E t \in Tasks, ok \in BOOLEAN : AFetch(t, ok)
    \/ \E t \in Tasks, ok \in BOOLEAN, ar \in AnalysisResults : AAnalyze(t, ok, ar)
    \/ \E t \in Tasks, ok \in BOOLEAN : APost(t, ok)
    \/ \E t \in Tasks, ok \in BOOLEAN : AComplete(t, ok)
    \/ \E t \in Tasks, ok \in BOOLEAN : AFail(t, ok)
    \/ \E t \in Tasks, ok \in BOOLEAN, rnd \in 1..MaxRandom : BTrigger(t, ok, rnd)
    \/ \E t \in Tasks, ok \in BOOLEAN, r \in ReviewResults \cup {NoFilesResult} : BPerform(t, ok, r)
    \/ \E t \in Tasks, ok \in BOOLEAN : BUpdate(t, ok)
    \/ \E t \in Tasks, ok \in BOOLEAN : BPost(t, ok)
    \/ \E t \in Tasks, ok \in BOOLEAN : BFail(t, ok)
    \/ \E t \in Tasks, ok \in BOOLEAN, rr \in BOOLEAN : RMInit(t, ok, rr)
    \/ \E t \in Tasks, ok \in BOOLEAN, ar \in AnalysisResults : RMRun(t, ok, ar)
    \/ \E t \in Tasks, ok \in BOOLEAN : RMUpdate(t, ok)
    \/ \E t \in Tasks, ok \in BOOLEAN : RMFail(t, ok)
    \/ \E t \in Tasks, ok \in BOOLEAN : CSave(t, ok)
    \/ \E t \in Tasks, ok \in BOOLEAN : CPull(t, ok)
    \/ \E t \in Tasks, ok \in BOOLEAN : UpdateDetails(t, ok)
    \/ Tick

Spec == Init /\ [][Next]_vars

\* DiffAnalyzer on every patch of up to MaxPatchLen lines
InitDiff ==
    /\ patch \in Patches(MaxPatchLen)
    /\ diffAnalysis = NoAnalysis
    /\ lookup = NoLookup
    /\ rawComments = NoComments
    /\ runs = <<>>
    /\ separated = NotSeparated
    /\ retry = IdleRetry
    /\ pb = IdlePrompt
    /\ chunked = NoChunks
    /\ IdleReview

NextDiff ==
    \/ AnalyzePRFiles
    \/ \E line \in 0..MaxQueryLine : DAFindDiffPosition(line)
    \/ \E line \in 0..MaxQueryLine : CPFindDiffPosition(line)

SpecDiff == InitDiff /\ [][NextDiff]_vars

\* CommentProcessor on every patch of up to MaxCPatchLen lines
InitComments ==
    /\ patch \in Patches(MaxCPatchLen)
    /\ diffAnalysis = NoAnalysis
    /\ lookup = NoLookup
    /\ rawComments = NoComments
    /\ runs = <<>>
    /\ separated = NotSeparated
    /\ retry = IdleRetry
    /\ pb = IdlePrompt
    /\ chunked = NoChunks
    /\ IdleReview

NextComments ==
    \/ AnalyzePRFiles
    \/ \E cs \in SeqsUpTo(CommentDomain, MaxComments) : ReceiveComments(cs)
    \/ ProcessComments

SpecComments == InitComments /\ [][NextComments]_vars

\* CommentProcessor.separateComments on every list of up to MaxSeparated comments
InitSeparate ==
    /\ retry = IdleRetry
    /\ pb = IdlePrompt
    /\ chunked = NoChunks
    /\ IdleDiff
    /\ IdleReview

NextSeparate ==
    \E comments \in SeqsUpTo(SeparateDomain, MaxSeparated) : SeparateComments(comments)

SpecSeparate == InitSeparate /\ [][NextSeparate]_vars

\* One chunked analysis of up to MaxResponses chunks
InitChunked ==
    /\ retry = IdleRetry
    /\ pb = IdlePrompt
    /\ chunked = NoChunks
    /\ IdleDiff
    /\ IdleReview

NextChunked ==
    \/ \E m \in ChunkMetrics : ChunkResponse(m)
    \/ AggregateChunks

SpecChunked == InitChunked /\ [][NextChunked]_vars

\* One analyzeCodeWithRetry call
InitRetry ==
    /\ retry = IdleRetry
    /\ pb = IdlePrompt
    /\ chunked = NoChunks
    /\ IdleDiff
    /\ IdleReview

NextRetry ==
    \/ \E mr \in (0 - 1)..MaxRetriesBound : RetryStart(mr)
    \/ \E o \in ServiceOutcomes : RetryAttempt(o)
    \/ \E o \in ServiceOutcomes : RetryFallback(o)
    \/ RetryWake

SpecRetry == InitRetry /\ [][NextRetry]_vars

\* Re-reviews by AIReviewService.reviewPullRequest of a pull request that
\* already has reviews: the histories earlier review tasks leave behind
PriorFeedback ==
    <<Feedback(FileName, 1, "remove console.log", "issue", "high"),
      Feedback(FileName, 2, "add error handling", "issue", "medium"),
      Feedback(FileName, 3, "unused function", "suggestion", "low")>>
PriorCompleted(n, sup, fb) ==
    Review(ReviewId("review_", 0, n), "completed", sup, "ok", fb, DefaultMetrics, "", 0)
PriorFailed(n) ==
    Review(ReviewId("review_", 0, n), "failed", FALSE, "", <<>>, DefaultMetrics,
           "GitHub request failed", 0)
PriorHistories ==
    { <<>>,
      <<PriorCompleted(1, FALSE, PriorFeedback)>>,
      <<PriorCompleted(1, TRUE, PriorFeedback)>>,
      <<PriorCompleted(1, TRUE, PriorFeedback), PriorFailed(2)>>,
      <<PriorCompleted(1, FALSE, PriorFeedback),
        PriorCompleted(2, FALSE, <<Feedback(FileName, 4, "memory leak", "issue", "high")>>)>> }

InitReReview ==
    /\ db \in {[exists |-> TRUE, reviews |-> h] : h \in PriorHistories}
    /\ tasks = [t \in Tasks |-> IdleTask]
    /\ now = 0
    /\ retry = IdleRetry
    /\ pb = IdlePrompt
    /\ chunked = NoChunks
    /\ IdleDiff

NextReReview ==
    \/ \E t \in Tasks, rr \in BOOLEAN : AStart(t, rr)
    \/ \E t \in Tasks, ok \in BOOLEAN : ASupersede(t, ok)
    \/ \E t \in Tasks, ok \in BOOLEAN : AAdd(t, ok)
    \/ \E t \in Tasks, ok \in BOOLEAN : AFetch(t, ok)
    \/ \E t \in Tasks, ok \in BOOLEAN, ar \in AnalysisResults : AAnalyze(t, ok, ar)
    \/ \E t \in Tasks, ok \in BOOLEAN : APost(t, ok)
    \/ \E t \in Tasks, ok \in BOOLEAN : AComplete(t, ok)
    \/ \E t \in Tasks, ok \in BOOLEAN : AFail(t, ok)
    \/ Tick

SpecReReview == InitReReview /\ [][NextReReview]_vars

\* PromptBuilder on every list of up to MaxFiles changed files
EnvModels == {"", "gpt-3.5-turbo", "gpt-4", "gpt-4-32k", "gpt-4o"}
InitPrompt ==
    /\ pb \in { [IdlePrompt EXCEPT !.given = TRUE, !.data = PRData(20, desc, files),
                                    !.env = env, !.isReReview = rr] :
                   desc \in {0, 300}, files \in SeqsUpTo(FileShapes, MaxFiles),
                   env \in EnvModels, rr \in BOOLEAN }
    /\ chunked = NoChunks
    /\ retry = IdleRetry
    /\ IdleDiff
    /\ IdleReview

NextPrompt ==
    \/ NeedsChunking
    \/ BuildPrompt
    \/ \E totalChunks \in 1..MaxChunks, chunkIndex \in 0..(MaxChunks - 1) :
          BuildChunkedPrompt(chunkIndex, totalChunks)

SpecPrompt == InitPrompt /\ [][NextPrompt]_vars


-----------------------------------------------------------------------------
(* Properties of the Review records *)

\* C1: a Review's status only ever changes from in_progress to completed or
\* from in_progress to failed; once completed or failed it never changes again.
\* (A Review keeps its place in the array in every step but the $pull of the
\* placeholder, which changes no status.)
C1_StatusOnlyLeavesInProgress ==
    [][Len(db'.reviews) >= Len(db.reviews)
       => \A i \in 1..Len(db.reviews) :
             db'.reviews[i].status # db.reviews[i].status
             => /\ db.reviews[i].status = "in_progress"
                /\ db'.reviews[i].status \in {"completed", "failed"}]_vars

\* C10: a re-review trigger marks as superseded exactly the existing Reviews
\* that are completed and not yet superseded; Reviews in any other status are
\* not marked, and the marking changes no feedback, summary, metrics or status.
C10_SupersedeOnlyCompleted ==
    [][\A t \in Tasks :
          (tasks[t].pc = "A_supersede" /\ tasks'[t].pc = "A_add" /\ db' # db)
          => \A i \in 1..Len(db.reviews) :
                /\ db'.reviews[i].isSuperseded
                      = (db.reviews[i].isSuperseded \/ db.reviews[i].status = "completed")
                /\ db'.reviews[i].status = db.reviews[i].status
                /\ db'.reviews[i].feedback = db.reviews[i].feedback
                /\ db'.reviews[i].summary = db.reviews[i].summary
                /\ db'.reviews[i].metrics = db.reviews[i].metrics]_vars

-----------------------------------------------------------------------------
(* Properties of analyzeCodeWithRetry *)

LastLog == retry.log[Len(retry.log)]
AllFailedBefore(n) == \A i \in 1..(n - 1) : ~retry.log[i].ok
DelaysAreBackoff == \A k \in 1..Len(retry.delays) : retry.delays[k] = (2 ^ (k - 1)) * 1000
DegradedDefault == getDefaultResponse("Failed after multiple attempts")

\* The parts of C2 that the claim and its amendment share: at most
\* maxRetries+1 attempts, none after a success, a wait of 2^k seconds after the
\* k-th failed attempt before the next one, the default after maxRetries+1
\* failures, no exception.
RetryCommon ==
    /\ retry.pc # "raised"
    /\ Len(retry.log) <= retry.maxRetries + 1
    /\ AllFailedBefore(Len(retry.log))
    /\ DelaysAreBackoff
    /\ retry.pc \in {"attempt", "fallback", "sleep"}
          => /\ AllFailedBefore(Len(retry.log) + 1)
             /\ Len(retry.delays) = Len(retry.log)
             /\ retry.pc = "sleep" => Len(retry.log) <= retry.maxRetries
    /\ retry.pc = "returned"
          => /\ Len(retry.log) >= 1
             /\ Len(retry.delays) = Len(retry.log) - 1
             /\ ~LastLog.ok => /\ Len(retry.log) = retry.maxRetries + 1
                               /\ retry.result = DegradedDefault

\* C2 as claimed: at most maxRetries+1 calls of the completion service, and
\* the value returned is the successful attempt's parsed value.
C2_Original ==
    (retry.pc # "idle" /\ retry.maxRetries >= 0)
    => /\ RetryCommon
       /\ retry.calls <= retry.maxRetries + 1
       /\ (retry.pc = "returned" /\ LastLog.ok) => retry.result = LastLog.parsed

\* C2 as amended: at most maxRetries+1 attempts, each calling the completion
\* service once, or twice when the service rejects the structured-output flag;
\* the value returned is the successful attempt's parsed value with its missing
\* fields defaulted and its comments without file or line dropped (a complete
\* response is returned as parsed).
C2_RetryContract ==
    (retry.pc # "idle" /\ retry.maxRetries >= 0)
    => /\ RetryCommon
       /\ retry.calls <= 2 * (retry.maxRetries + 1)
       /\ retry.calls >= Len(retry.log)
       /\ (retry.pc = "returned" /\ LastLog.ok)
             => /\ retry.result.summary =
                      (IF LastLog.parsed.summary = "" THEN "Code review completed"
                       ELSE LastLog.parsed.summary)
                /\ retry.result.metrics = LastLog.parsed.metrics
                /\ \A i \in 1..Len(retry.result.comments) :
                      /\ retry.result.comments[i].file # ""
                      /\ retry.result.comments[i].line > 0
                /\ Len(retry.result.comments) =
                      Cardinality({i \in 1..Len(LastLog.parsed.comments) :
                                      /\ LastLog.parsed.commentsIsArray
                                      /\ LastLog.parsed.comments[i].file # ""
                                      /\ LastLog.parsed.comments[i].line > 0})
                /\ LastLog.parsed = FullResponse => retry.result = FullResponse

\* maxRetries = 2: fail, fail, succeed returns the successful value after waits of 1 s and 2 s
C2_Witness ==
    /\ retry.pc = "returned"
    /\ retry.maxRetries = 2
    /\ Len(retry.log) = 3
    /\ LastLog.ok
    /\ retry.delays = <<1000, 2000>>
    /\ retry.result = FullResponse


-----------------------------------------------------------------------------
(* Properties of DiffAnalyzer, stated on the patch text itself *)

fileAnalysis == diffAnalysis.files[FileName]
lineMapping  == fileAnalysis.lineMapping

IsHeader(i)  == patch[i].pre = "@@" /\ patch[i].wf
Mappable(i)  == patch[i].pre \in {"+", " "}
Counted(i)   == patch[i].pre \in {"+", "-", " "}
Max(S)       == CHOOSE x \in S : \A y \in S : y <= x

\* The last well-formed hunk header before line i (0: none)
LastHeader(i) == Max({0} \cup {j \in 1..(i - 1) : IsHeader(j)})

\* The addition and context lines that come after a well-formed header
Headed == {i \in 1..Len(patch) : Mappable(i) /\ LastHeader(i) # 0}

\* The new-file line number of such a line: the header's new start plus the
\* number of addition and context lines between the header and the line
NewLineNo(i) ==
    patch[LastHeader(i)].newStart
        + Cardinality({j \in (LastHeader(i) + 1)..(i - 1) : Mappable(j)})

\* C3 as claimed: every addition and every context line of the patch yields
\* exactly one lineMapping entry, keyed by its new-file line number and holding
\* its content; no deletion line is an entry.
C3_Original ==
    diffAnalysis.ready
    => /\ \A i \in 1..Len(patch) :
             Mappable(i)
             => /\ i \in Headed
                /\ NewLineNo(i) \in DOMAIN lineMapping
                /\ lineMapping[NewLineNo(i)].content = patch[i]
                /\ \A j \in Headed : j # i => NewLineNo(j) # NewLineNo(i)
       /\ \A n \in DOMAIN lineMapping : lineMapping[n].content.pre # "-"

\* C3 as amended: the entries are exactly the new-file line numbers of the
\* addition and context lines that follow a well-formed hunk header; the entry
\* of a number holds the content of the last line of the patch with that number
\* (so each such line has exactly one entry unless a later line has its
\* number); lines before the first well-formed header and deletion lines have
\* no entry.
C3_MappingEntries ==
    diffAnalysis.ready
    => /\ DOMAIN lineMapping = {NewLineNo(i) : i \in Headed}
       /\ \A n \in DOMAIN lineMapping :
             LET last == Max({i \in Headed : NewLineNo(i) = n})
             IN  /\ lineMapping[n].content = patch[last]
                 /\ lineMapping[n].type = (IF patch[last].pre = "+" THEN "addition" ELSE "context")
       /\ \A n \in DOMAIN lineMapping : lineMapping[n].content.pre \in {"+", " "}

C3_Witness ==
    /\ diffAnalysis.ready
    /\ \E i, j, k \in 1..Len(patch) :
          /\ IsHeader(i) /\ i < j /\ i < k
          /\ patch[j].pre = "-" /\ Mappable(k)
    /\ DOMAIN lineMapping # {}

ExamplePatch == <<Hdr(1, 1), Add("a"), Ctx("c"), Del("d")>>

\* The lines of the hunk of header h: up to the next line that starts with "@@"
InHunkOf(h, i) == h < i /\ \A j \in (h + 1)..i : patch[j].pre # "@@"

\* C4: after a well-formed header with new start S, the k-th addition-or-context
\* line of the hunk is keyed by S+k-1, and its diffPosition is the header's own
\* position plus the number of addition, deletion and context lines from the
\* header up to and including it; the example patch maps line 1 to position 1,
\* line 2 to position 2 and gives the deletion no entry.
C4_HunkPositions ==
    diffAnalysis.ready
    => /\ \A x \in 1..Len(fileAnalysis.hunks) :
             LET hunk == fileAnalysis.hunks[x]
                 h == hunk.headerLine + 1
                 m == createLineMapping(hunk)
             IN  /\ IsHeader(h)
                 /\ \A i \in 1..Len(patch) :
                       (InHunkOf(h, i) /\ Mappable(i))
                       => LET k == Cardinality({j \in (h + 1)..i : Mappable(j)})
                              key == patch[h].newStart + k - 1
                          IN  /\ key \in DOMAIN m
                              /\ m[key].content = patch[i]
                              /\ m[key].diffPosition =
                                    hunk.headerLine
                                       + Cardinality({j \in (h + 1)..i : Counted(j)})
       /\ \A h \in 1..Len(patch) :
             IsHeader(h) => \E x \in 1..Len(fileAnalysis.hunks) :
                               fileAnalysis.hunks[x].headerLine = h - 1
       /\ patch = ExamplePatch
             => /\ DOMAIN lineMapping = {1, 2}
                /\ lineMapping[1].diffPosition = 1
                /\ lineMapping[1].content = Add("a")
                /\ lineMapping[2].diffPosition = 2
                /\ lineMapping[2].content = Ctx("c")

C4_Witness == diffAnalysis.ready /\ patch = ExamplePatch

\* The hunk an entry of the file's mapping comes from: the last hunk with that key
Origin(n) == Max({x \in 1..Len(fileAnalysis.hunks) : n \in DOMAIN createLineMapping(fileAnalysis.hunks[x])})

\* C5: for two mapped new-file lines a < b that come from the same hunk,
\* diffPosition(a) < diffPosition(b).
C5_PositionsIncrease ==
    diffAnalysis.ready
    => \A a, b \in DOMAIN lineMapping :
          (a < b /\ Origin(a) = Origin(b))
          => lineMapping[a].diffPosition < lineMapping[b].diffPosition

C5_Witness ==
    /\ diffAnalysis.ready
    /\ \E a, b \in DOMAIN lineMapping :
          /\ a < b /\ Origin(a) = Origin(b)
          /\ lineMapping[b].diffPosition > lineMapping[a].diffPosition + 1

\* The mapped lines nearest to a line
Nearest(line) ==
    {k \in DOMAIN lineMapping :
        \A k2 \in DOMAIN lineMapping : Abs(k - line) <= Abs(k2 - line)}

\* What C6 and C7 say a line resolves to: its own entry, else the entry of a
\* nearest mapped line if that is at most 5 lines away, else nothing
Resolutions(line) ==
    IF line \in DOMAIN lineMapping THEN {Pos(lineMapping[line].diffPosition)}
    ELSE IF \E k \in DOMAIN lineMapping : Abs(k - line) <= 5
    THEN {Pos(lineMapping[k].diffPosition) : k \in Nearest(line)}
    ELSE {Null}

\* C6: findDiffPosition(file, line) returns the stored diffPosition of a mapped
\* line, else that of the nearest mapped line iff it is at most 5 lines away,
\* else null; on an empty mapping it returns null for every line and does not raise.
C6_FindDiffPosition ==
    lookup.impl # "" => lookup.result \in Resolutions(lookup.line)


-----------------------------------------------------------------------------
(* Properties of CommentProcessor *)

\* A raw comment that C7 says is kept: known file, defined line, resolvable
Kept(c) ==
    /\ c.file \in DOMAIN diffAnalysis.files
    /\ c.line # NoLine
    /\ Resolutions(c.line) # {Null}

KeptComments == SelectSeq(rawComments.original, Kept)

\* C7: processComments returns, in input order, exactly the raw comments with a
\* file present in diffAnalysis.files and a defined line that resolves within
\* the 5-line tolerance, each carrying the resolved diffPosition; every other
\* comment is dropped.
C7_ProcessComments ==
    \A r \in 1..Len(runs) :
        /\ Len(runs[r]) = Len(KeptComments)
        /\ \A j \in 1..Len(runs[r]) :
              /\ runs[r][j].file = KeptComments[j].file
              /\ runs[r][j].line = KeptComments[j].line
              /\ runs[r][j].comment = KeptComments[j].comment
              /\ Pos(runs[r][j].diffPosition) \in Resolutions(KeptComments[j].line)

\* A call that kept a comment resolved through a nearby line and dropped another
C7_Witness ==
    /\ Len(runs) >= 1
    /\ Len(rawComments.original) = 2
    /\ Len(runs[1]) = 1
    /\ runs[1][1].line \notin DOMAIN lineMapping
    /\ rawComments.original[1].file = FileName
    /\ rawComments.original[1].line = 7

C9_Normalized ==
    \A r \in 1..Len(runs) : \A j \in 1..Len(runs[r]) :
        /\ runs[r][j].severity \in SeverityEnum
        /\ runs[r][j].type \in TypeEnum
        /\ KeptComments[j].severity = "critical" => runs[r][j].severity = "high"
        /\ KeptComments[j].type \notin (TypeEnum \cup {""}) => runs[r][j].type = "suggestion"


-----------------------------------------------------------------------------
(* The re-review prompt *)

\* The reviews a task read when it was triggered (its in-memory document,
\* without the review the task itself added)
ReadAtTrigger(t) ==
    LET d == tasks[t].doc
    IN  { i \in 1..Len(d) : d[i].reviewId # tasks[t].reviewId }
CompletedAtTrigger(t) ==
    { i \in ReadAtTrigger(t) : tasks[t].doc[i].status = "completed" }
CurrentAtTrigger(t) ==
    { i \in CompletedAtTrigger(t) : ~tasks[t].doc[i].isSuperseded }
PromptBuilt(t) == tasks[t].variant = "service" /\ tasks[t].prompt.isReReview

\* The prompt of task t lists exactly the feedback items of `review`
ListsItemsOf(t, review) ==
    /\ tasks[t].prompt.hasPrevious
    /\ tasks[t].prompt.found = Len(review.feedback)
    /\ Len(tasks[t].prompt.issues) = Len(review.feedback)
    /\ \A i \in 1..Len(review.feedback) :
          tasks[t].prompt.issues[i] =
              [comment |-> review.feedback[i].comment, path |-> review.feedback[i].path,
               line |-> review.feedback[i].line]

-----------------------------------------------------------------------------
(* Review identifiers *)

\* C12: in every reachable state, including when two triggers for the same
\* pull request run concurrently, no two Reviews of one pull request have the
\* same reviewId.
C12_UniqueReviewIds ==
    \A i, j \in 1..Len(db.reviews) :
        db.reviews[i].reviewId = db.reviews[j].reviewId => i = j

-----------------------------------------------------------------------------
(* The Review record during processing *)

\* Task t is past the creation of its Review and has not finished: it is
\* fetching the changed files, calling the completion service, posting or
\* writing the outcome
Processing(t) ==
    tasks[t].pc \in {"A_fetch", "A_analyze", "A_post", "A_complete",
                     "B_perform", "B_update", "B_post", "RM_run", "RM_update"}

StatusLookup(reviewId) == findIndex(db.reviews, reviewId)

-----------------------------------------------------------------------------
(* The trigger's return *)

\* The trigger of task t has handed the reviewId to its caller: the route
\* handler responds after `await aiReviewService.reviewPullRequest(...)`, the
\* review controller's triggerReview returns after process.nextTick(...)
TriggerReturned(t) ==
    \/ tasks[t].variant = "service" /\ tasks[t].pc = "returned"
    \/ tasks[t].variant = "controller"
          /\ tasks[t].pc \in {"B_perform", "B_update", "B_post", "B_fail", "done"}

\* C14: triggerReview(pullRequestIdentity, isReReview) returns the reviewId to
\* its caller immediately, without waiting for the review to reach completed or
\* failed: the analysis runs as a detached background task after the call has
\* returned.
C14_TriggerReturnsImmediately ==
    [][\A t \in Tasks :
          (~TriggerReturned(t) /\ TriggerReturned(t)')
          => /\ Processing(t)'
             /\ db'.reviews[findIndex(db'.reviews, tasks'[t].reviewId)].status = "in_progress"]_vars

-----------------------------------------------------------------------------
(* Posting failures *)

ReviewOf(t) == db.reviews[StatusLookup(tasks[t].reviewId)]

\* C15: if posting comments to the code-hosting system fails, fully or partly,
\* after the analysis succeeded, the Review still ends in status completed with
\* the analysis summary and feedback; a posting failure never causes the Review
\* to be marked failed.
C15_PostingFailureNeverFails ==
    \A t \in Tasks :
        (tasks[t].postFailed /\ StatusLookup(tasks[t].reviewId) # 0)
        => ReviewOf(t).status # "failed"

-----------------------------------------------------------------------------
(* Errors of a review task *)

\* Task t has ended after raising an error (message tasks[t].error) at a
\* point where its Review was stored
EndedWithError(t) ==
    /\ tasks[t].pc \in {"raised", "done"}
    /\ tasks[t].error # ""
    /\ StatusLookup(tasks[t].reviewId) # 0

\* The error reached the caller that triggered the review: reviewPullRequest
\* re-throws to the awaiting route handler
Propagated(t) == tasks[t].pc = "raised"

\* C16: if a review task raises an error after its Review record was created,
\* the Review ends with status failed and with its error field equal to the
\* raised error's message, and the error does not propagate to the caller that
\* triggered the review.
C16_ErrorRecordedNotPropagated ==
    \A t \in Tasks :
        EndedWithError(t)
        => /\ ReviewOf(t).status = "failed"
           /\ ReviewOf(t).error = tasks[t].error
           /\ ~Propagated(t)

-----------------------------------------------------------------------------
(* Errors and malformed answers of the completion service *)

\* C17: when the completion service answers a request of a review task with a
\* rate-limit or other transient error, the task retries the request with
\* backoff and, if every attempt fails, continues with the degraded default
\* response; such an error alone never ends the Review in status failed.
C17_TransientErrorNeverFails ==
    \A i \in 1..Len(db.reviews) :
        db.reviews[i].status = "failed" => db.reviews[i].error # RateLimitMessage

\* The service answered the call with a text (it did not fail)
TextKinds == {"json", "nonObject", "embedded", "embeddedBad", "noBraces"}

\* C18: analyzeCode(prompt) never raises because of the content of the
\* service's response text: if the text is not valid JSON it returns the object
\* parsed from the brace-delimited substring of the text, and if no such
\* substring exists or the substring is not valid JSON either, it returns the
\* fixed degraded response (empty comments, every metric 5, explanatory summary).
C18_AnalyzeCodeNeverRaisesOnContent ==
    retry.analyzed.text \in TextKinds
    => /\ retry.analyzed.how = "return"
       /\ retry.analyzed.text \in {"embeddedBad", "noBraces"}
          => /\ retry.analyzed.value = getDefaultResponse("Failed to parse AI response")
             /\ retry.analyzed.value.comments = <<>>
             /\ \A k \in DOMAIN retry.analyzed.value.metrics :
                   retry.analyzed.value.metrics[k] = 5

-----------------------------------------------------------------------------
(* Prompt size *)

\* The characters needsChunking counts: all patches plus the fixed overhead
CountedChars == SumOver(pb.data.files, "patch", 1) + OverheadChars
ActiveBudget == tokenLimit(activeModel(pb.env))

\* C19: needsChunking(data) returns true if and only if the estimated token
\* size of the full prompt (ceil(characters / 4), the characters being those of
\* all patches plus the overhead of 2000) is strictly greater than 80% of the
\* token budget of the active model; at exactly 80% of the budget, and for any
\* smaller size, it returns false.
C19_NeedsChunking ==
    pb.call = "needsChunking"
    => LET tokens == (CountedChars \div 4) + (IF CountedChars % 4 = 0 THEN 0 ELSE 1)
       IN  /\ pb.needs <=> (100 * tokens > 80 * ActiveBudget)
           /\ 100 * tokens <= 80 * ActiveBudget => ~pb.needs

\* needsChunking has answered true for an estimate one token above 80% of the
\* 4096-token budget (3277 tokens against 3276.8)
C19_Witness ==
    /\ pb.call = "needsChunking"
    /\ pb.needs
    /\ ActiveBudget = 4096
    /\ CountedChars = 13105

\* C20: for any set of changed files, every prompt returned by buildPrompt or
\* buildChunkedPrompt has an estimated size (ceil(characters / 4)) no greater
\* than the token budget of the active model.
C20_PromptWithinBudget ==
    pb.call \in {"buildPrompt", "buildChunkedPrompt"}
    => 4 * ActiveBudget >= pb.prompt

-----------------------------------------------------------------------------
(* separateComments *)

\* The positions of the input list whose comment has a file and a line > 0
InlineAt == { i \in 1..Len(separated.list) :
                separated.list[i].file # "" /\ separated.list[i].line >= 1 }
GeneralAt == (1..Len(separated.list)) \ InlineAt

\* The k-th smallest element of a set of positions
RECURSIVE Nth(_, _)
Nth(S, k) ==
    LET least == CHOOSE x \in S : \A y \in S : x <= y
    IN  IF k = 1 THEN least ELSE Nth(S \ {least}, k - 1)

\* C21: separateComments(list) places every input comment in exactly one of
\* inlineComments and generalComments (the two lengths sum to the input length
\* and relative order is preserved); a comment is inline if and only if it has
\* a file and a line greater than 0, and each inline entry keeps that comment's
\* path, line and diffPosition.
C21_SeparateComments ==
    separated.given
    => /\ Len(separated.inlineComments) + Len(separated.generalComments) = Len(separated.list)
       /\ Len(separated.inlineComments) = Cardinality(InlineAt)
       /\ \A k \in 1..Len(separated.inlineComments) :
             LET c == separated.list[Nth(InlineAt, k)]
                 e == separated.inlineComments[k]
             IN  e.path = c.file /\ e.line = c.line /\ e.position = c.diffPosition
                 /\ e.body = c.formattedComment
       /\ \A k \in 1..Len(separated.generalComments) :
             separated.generalComments[k].body.text
                 = separated.list[Nth(GeneralAt, k)].formattedComment

\* A list with an inline comment between two general ones has been separated
C21_Witness ==
    /\ separated.given
    /\ Len(separated.list) = 3
    /\ InlineAt = {2}
    /\ separated.list[1].file # "" /\ separated.list[1].line = 0
    /\ Len(separated.generalComments) = 2

-----------------------------------------------------------------------------
(* Persisted metrics *)

\* Task t completed its Review from a response whose four raw metrics are in 1..10
CompletedFromMetrics(t) ==
    /\ tasks[t].pc \in {"returned", "done"}
    /\ tasks[t].variant \in {"service", "manager"}
    /\ StatusLookup(tasks[t].reviewId) # 0
    /\ ReviewOf(t).status = "completed"
    /\ tasks[t].analysis.hasMetrics
    /\ \A k \in {"readability", "maintainability", "security", "performance"} :
          tasks[t].analysis.metrics[k] \in 1..10

\* C22: when a Review is completed from a model response whose raw metrics
\* readability, maintainability, security and performance are each in 1..10,
\* the persisted metrics are codeQualityScore = round of their mean,
\* complexity = performance, securityScore = security, and readability and
\* maintainability unchanged.
C22_PersistedMetrics ==
    \A t \in Tasks :
        CompletedFromMetrics(t)
        => LET raw == tasks[t].analysis.metrics
               sum == raw.readability + raw.maintainability + raw.security + raw.performance
           IN  ReviewOf(t).metrics =
                   [codeQualityScore |-> (sum + 2) \div 4,
                    complexity |-> raw.performance,
                    securityScore |-> raw.security,
                    readability |-> raw.readability,
                    maintainability |-> raw.maintainability]

-----------------------------------------------------------------------------
(* Chunk aggregation *)

Dimensions == {"readability", "maintainability", "security", "performance"}

\* The values of dimension k in the chunk responses, in order
ValuesOf(k) == [i \in 1..Len(chunked.responses) |-> chunked.responses[i][k]]

\* C23: when a review is analysed in n chunks, each aggregated metric
\* dimension equals the mean of that dimension over the n chunk responses
\* rounded to the nearest integer (no integer is nearer to the mean); chunk
\* values security = [8, 6, 7] give an aggregated security of 7.
C23_ChunkMetricsMean ==
    chunked.aggregated
    => LET n == Len(chunked.responses)
       IN  /\ \A k \in Dimensions :
                 LET total == sumOf(chunked.responses, k, 1)
                     a == chunked.metrics[k]
                 IN  /\ 2 * n * a - n <= 2 * total
                     /\ 2 * total <= 2 * n * a + n
                     /\ (total % n = 0 => a * n = total)
           /\ (ValuesOf("security") = <<8, 6, 7>> => chunked.metrics.security = 7)
           /\ (ValuesOf("readability") = <<8, 7>> => chunked.metrics.readability = 8)

\* Three chunks with security 8, 6 and 7 have been aggregated
C23_Witness ==
    /\ chunked.aggregated
    /\ ValuesOf("security") = <<8, 6, 7>>

-----------------------------------------------------------------------------
(* Every review reaches a final status *)

\* Task t has returned or raised to its caller after its Review was stored
FinishedWithReview(t) ==
    /\ tasks[t].pc \in {"returned", "raised", "done"}
    /\ StatusLookup(tasks[t].reviewId) # 0

\* C24: every Review created in status in_progress eventually reaches status
\* completed or failed, provided every collaborator call returns or raises;
\* no review task finishes (returns or raises to its caller) while its Review
\* is still in_progress.  A task has finitely many steps, so both halves say:
\* once the task has finished, its Review is completed or failed.
C24_ReviewReachesFinalStatus ==
    \A t \in Tasks :
        FinishedWithReview(t) => ReviewOf(t).status \in {"completed", "failed"}

-----------------------------------------------------------------------------
(* Interleaved tasks *)

\* Task u is between the creation of its Review and its end
InFlight(u) ==
    /\ tasks[u].pc \notin {"idle", "returned", "raised", "done"}
    /\ StatusLookup(tasks[u].reviewId) # 0

\* C25: when two review tasks for the same pull request interleave, each task
\* writes only its own Review record: a step of one task changes no field of
\* the stored Review of another task that is still running.  (A Review keeps
\* its place in the array in every step but the $pull of the placeholder.)
C25_TaskWritesOnlyOwnReview ==
    [][\A t \in Tasks :
          (tasks'[t] # tasks[t] /\ Len(db'.reviews) >= Len(db.reviews))
          => \A i \in 1..Len(db.reviews) :
                db'.reviews[i] # db.reviews[i]
                => ~\E u \in Tasks \ {t} :
                      /\ InFlight(u)
                      /\ tasks[u].reviewId = db.reviews[i].reviewId
                      /\ tasks[t].reviewId # db.reviews[i].reviewId]_vars

-----------------------------------------------------------------------------
(* Supersession *)

PastSupersession(t) ==
    /\ tasks[t].variant = "service"
    /\ tasks[t].isReReview
    /\ tasks[t].pc \notin {"idle", "A_supersede"}

-----------------------------------------------------------------------------
(* Reviews are retained *)

\* The reviewId of review is still stored after the step
Retained(review) ==
    \E j \in 1..Len(db'.reviews) : db'.reviews[j].reviewId = review.reviewId

-----------------------------------------------------------------------------
(* Chunks partition the changed files *)

\* buildChunkedPrompt has been called for chunkIndex 0 .. totalChunks - 1
AllChunksBuilt ==
    /\ pb.call = "buildChunkedPrompt"
    /\ Len(pb.subsets) = pb.totalChunks
    /\ \A k \in 1..Len(pb.subsets) : pb.subsets[k].chunkIndex = k - 1

\* C28: for any changed files and any totalChunks >= 1, the file subsets used
\* by buildChunkedPrompt for chunkIndex 0 .. totalChunks-1 partition the
\* changed files (every file is in exactly one chunk's subset), and the prompt
\* of chunk i carries the marker "chunk i+1 of totalChunks".
C28_ChunksPartitionFiles ==
    /\ pb.call = "buildChunkedPrompt" => pb.marker = <<pb.chunkIndex + 1, pb.totalChunks>>
    /\ AllChunksBuilt
       => /\ \A p \in 1..Len(pb.data.files) :
                Cardinality({k \in 1..Len(pb.subsets) : p \in pb.subsets[k].positions}) = 1
          /\ \A k \in 1..Len(pb.subsets) :
                pb.subsets[k].positions \subseteq 1..Len(pb.data.files)

\* Four files have been split over three chunks, the last of them empty
C28_Witness ==
    /\ AllChunksBuilt
    /\ Len(pb.data.files) = 4
    /\ pb.totalChunks = 3
    /\ pb.subsets[3].positions = {}
    /\ pb.marker = <<3, 3>>

-----------------------------------------------------------------------------
(* The re-review checklist *)

\* The checklist entry the prompt prints for a feedback item
ChecklistEntry(fb) == [comment |-> fb.comment, path |-> fb.path, line |-> fb.line]

\* C29: the checklist of prior feedback embedded in a re-review prompt is taken
\* from the most recent completed, non-superseded Review of the pull request
\* and contains none of that Review's feedback items whose severity is low.
C29_ChecklistExcludesLowSeverity ==
    \A t \in Tasks :
        (PromptBuilt(t) /\ CurrentAtTrigger(t) # {})
        => LET prior == tasks[t].doc[Max(CurrentAtTrigger(t))]
               issues == tasks[t].prompt.issues
           IN  /\ \A k \in 1..Len(issues) :
                     \E i \in 1..Len(prior.feedback) :
                         issues[k] = ChecklistEntry(prior.feedback[i])
               /\ \A i \in 1..Len(prior.feedback) :
                     prior.feedback[i].severity = "low"
                     => \A k \in 1..Len(issues) :
                           issues[k] # ChecklistEntry(prior.feedback[i])

-----------------------------------------------------------------------------
(* Malformed hunk headers *)

\* The last line starting with "@@" before line i, well-formed or not (0: none)
LastAt(i) == Max({0} \cup {j \in 1..(i - 1) : patch[j].pre = "@@"})

\* The addition and context lines between a malformed header and the next
\* well-formed one
AfterMalformed ==
    {i \in 1..Len(patch) : Mappable(i) /\ LastAt(i) # 0 /\ ~patch[LastAt(i)].wf}

\* C30: a patch line that starts with "@@" but is not a well-formed hunk header
\* creates no hunk and does not abort parsing of the file (the hunks are those
\* of the well-formed headers, later ones included); the addition and context
\* lines between the malformed header and the next well-formed header get no
\* line-mapping entries (the entries are those of the other headed lines).
C30_MalformedHeaderSkipped ==
    diffAnalysis.ready
    => /\ Len(fileAnalysis.hunks) = Cardinality({i \in 1..Len(patch) : IsHeader(i)})
       /\ \A k \in 1..Len(fileAnalysis.hunks) :
             IsHeader(fileAnalysis.hunks[k].headerLine + 1)
       /\ DOMAIN lineMapping = {NewLineNo(i) : i \in Headed \ AfterMalformed}

=============================================================================
